---- MODULE Spec2Model ----
(***************************************************************************)
(* A model of myCache: the LRU core (package lru), the single-flight       *)
(* coordinator (package singleflight), the append-only persistence log     *)
(* (package persistence), the shard (type cache) and the Group pipeline.   *)
(*                                                                         *)
(* Strings and []byte are sequences of byte values, so that len(key) and   *)
(* ByteView.Len() are computed, not assumed.                               *)
(***************************************************************************)
EXTENDS Integers, Sequences, FiniteSets, TLC

(***************************************************************************)
(* Bounds of the model.                                                    *)
(***************************************************************************)
NumKeys == 2
MaxValLen == 2
CapBytes == 4
MaxLruOps == 5
MaxWsOps == 4
MaxFaults == 1
MaxClock == 1
NumProcs == 2
MaxGets == 3
MaxFairGets == 2
NumPeers == 2
MaxReplicas == 2
MaxHash == 1
MaxRingOps == 2

Nil == <<>>

\* Keys "a", "b", "c", ... as byte strings, and the empty key "".
KeyOf(i) == <<96 + i>>
Keys == {KeyOf(i) : i \in 1..NumKeys}
EmptyKey == <<>>

\* Values "1", "22", "333", ...: one value of every length.
Values == {[i \in 1..n |-> 48 + n] : n \in 1..MaxValLen}

(***************************************************************************)
(* package lru                                                             *)
(*                                                                         *)
(* A Cache is a record [maxBytes, nbytes, ll, cache, status].  ll is the   *)
(* container/list, front first.  Every list.Element has an identity id;    *)
(* its Value is either an *entry (isEntry, with key and insideValue) or,   *)
(* when something else was pushed, the pointer that was pushed (ref).      *)
(* cache maps a key to the id of a list element.  status is "ok" while     *)
(* every call has returned, "panic" once a call has panicked, "hang" once  *)
(* a call loops forever and "race" once unsynchronized calls have written  *)
(* the list at the same time.                                              *)
(***************************************************************************)
VARIABLES lru, lruRes, lruOps

lruVars == <<lru, lruRes, lruOps>>

New(maxBytes) ==
    [maxBytes |-> maxBytes, nbytes |-> 0, ll |-> <<>>,
     cache |-> <<>>, status |-> "ok"]

EntryElem(id, key, val) ==
    [id |-> id, isEntry |-> TRUE, key |-> key, insideValue |-> val, ref |-> 0]

PtrElem(id, ref) ==
    [id |-> id, isEntry |-> FALSE, key |-> Nil, insideValue |-> Nil, ref |-> ref]

\* A fresh element identity: the least one that no element of the list has
\* or refers to.
UsedIds(c) == {c.ll[i].id : i \in 1..Len(c.ll)} \cup {c.ll[i].ref : i \in 1..Len(c.ll)}
NewId(c) == CHOOSE n \in 1..(2 * Len(c.ll) + 1) :
               /\ n \notin UsedIds(c)
               /\ \A m \in 1..(n - 1) : m \in UsedIds(c)

\* Position in ll of the element with identity id (0 when it is not linked).
PosOf(ll, id) ==
    IF \E i \in 1..Len(ll) : ll[i].id = id
    THEN CHOOSE i \in 1..Len(ll) : ll[i].id = id
    ELSE 0

DropAt(s, i) == [j \in 1..(Len(s) - 1) |-> IF j < i THEN s[j] ELSE s[j + 1]]

\* list.MoveToFront
MoveToFront(ll, id) ==
    LET i == PosOf(ll, id) IN
    IF i = 0 THEN ll ELSE <<ll[i]>> \o DropAt(ll, i)

\* list.PushFront
PushFront(ll, e) == <<e>> \o ll

\* list.Remove
ListRemove(ll, id) ==
    LET i == PosOf(ll, id) IN
    IF i = 0 THEN ll ELSE DropAt(ll, i)

\* delete(map, key)
MapDelete(m, key) == [k \in (DOMAIN m) \ {key} |-> m[k]]

\* map[key] = v
MapStore(m, key, v) == [k \in (DOMAIN m) \cup {key} |-> IF k = key THEN v ELSE m[k]]

ElemOf(c, id) == c.ll[PosOf(c.ll, id)]

\* Cache.Get: the result record carries the cache after the call.
LruGet(c, key) ==
    IF key \in DOMAIN c.cache
    THEN [c |-> [c EXCEPT !.ll = MoveToFront(c.ll, c.cache[key])],
          val |-> ElemOf(c, c.cache[key]).insideValue, ok |-> TRUE]
    ELSE [c |-> c, val |-> Nil, ok |-> FALSE]

\* Cache.RemoveOldest: the element is unlinked before its Value is asserted
\* to be an *entry; the failed assertion panics.
RemoveOldest(c) ==
    IF Len(c.ll) = 0 THEN c
    ELSE LET ele == c.ll[Len(c.ll)]
             c1 == [c EXCEPT !.ll = ListRemove(c.ll, ele.id)]
         IN IF ~ele.isEntry
            THEN [c1 EXCEPT !.status = "panic"]
            ELSE [c1 EXCEPT !.cache = MapDelete(c.cache, ele.key),
                            !.nbytes = c.nbytes - (Len(ele.key) + Len(ele.insideValue))]

\* A variant of the eviction loop that evicts at most one element.
EvictLoopOnce(c) ==
    IF c.status = "ok" /\ c.maxBytes > 0 /\ c.nbytes > c.maxBytes
    THEN IF Len(c.ll) = 0 THEN [c EXCEPT !.status = "hang"] ELSE RemoveOldest(c)
    ELSE c

\* The eviction loop of Cache.Add.  With an empty list RemoveOldest changes
\* nothing and the loop never ends.
RECURSIVE EvictLoop(_)
EvictLoop(c) ==
    IF c.status # "ok" THEN c
    ELSE IF c.maxBytes > 0 /\ c.nbytes > c.maxBytes
         THEN IF Len(c.ll) = 0
              THEN [c EXCEPT !.status = "hang"]
              ELSE EvictLoop(RemoveOldest(c))
         ELSE c

\* A variant of the rejection test that leaves the key's length out.
OversizedValueOnly(c, key, val) == c.maxBytes > 0 /\ Len(val) > c.maxBytes

\* The rejection test of Cache.Add.
Oversized(c, key, val) == c.maxBytes > 0 /\ Len(key) + Len(val) > c.maxBytes

\* Cache.Add, the branch for a key that is in the map: the *list.Element
\* itself is pushed as the Value of a new element, and nbytes moves by
\* old length minus new length.
AddExisting(c, key, val) ==
    LET value0 == c.cache[key]
        i == PosOf(c.ll, value0)
        temp == c.ll[i]
        pushed == PushFront(c.ll, PtrElem(NewId(c), value0))
    IN [c EXCEPT !.ll = [pushed EXCEPT ![i + 1].insideValue = val],
                 !.nbytes = c.nbytes + (Len(temp.insideValue) - Len(val))]

\* Cache.Add, the branch for a new key.
AddNew(c, key, val) ==
    LET id == NewId(c) IN
    [c EXCEPT !.ll = PushFront(c.ll, EntryElem(id, key, val)),
              !.cache = MapStore(c.cache, key, id),
              !.nbytes = c.nbytes + (Len(key) + Len(val))]

\* Cache.Add
LruAdd(c, key, val) ==
    IF Oversized(c, key, val)
    THEN [c |-> c, ok |-> FALSE]
    ELSE [c |-> EvictLoop(IF key \in DOMAIN c.cache
                          THEN AddExisting(c, key, val)
                          ELSE AddNew(c, key, val)),
          ok |-> TRUE]

\* Cache.Remove
LruRemove(c, key) ==
    IF Len(key) = 0 THEN c
    ELSE IF key \in DOMAIN c.cache
         THEN LET ele == ElemOf(c, c.cache[key]) IN
              [c EXCEPT !.cache = MapDelete(c.cache, ele.key),
                        !.ll = ListRemove(c.ll, ele.id),
                        !.nbytes = c.nbytes - (Len(ele.key) + Len(ele.insideValue))]
         ELSE c

(***************************************************************************)
(* The LRU driven directly by a single caller.                             *)
(***************************************************************************)
\* What the last call was and what it returned: ok is the boolean returned,
\* ret the value returned, was tells whether the key was in the map before
\* the call and evicted how many list elements the call unlinked.
Res(op, key, val, ok, ret, was, evicted) ==
    [op |-> op, key |-> key, val |-> val, ok |-> ok, ret |-> ret, was |-> was,
     evicted |-> evicted]

LruInit ==
    /\ \E mb \in 0..CapBytes : lru = New(mb)
    /\ lruRes = Res("New", Nil, Nil, TRUE, Nil, FALSE, 0)
    /\ lruOps = 0

\* One more call on the cache, while it is usable and the run is within bound.
LruCall ==
    /\ lru.status = "ok"
    /\ lruOps < MaxLruOps
    /\ lruOps' = lruOps + 1

\* lruUsed is the keys of the LRU in the order of their last Get or Add, the
\* latest first, kept while the LRU is driven directly.
VARIABLES lruUsed

\* The order of last use once key has been used.
Touch(used, key) == <<key>> \o SelectSeq(used, LAMBDA k : k # key)

CacheGet(key) ==
    /\ LruCall
    /\ LET r == LruGet(lru, key) IN
       /\ lru' = r.c
       /\ lruRes' = Res("Get", key, Nil, r.ok, r.val, key \in DOMAIN lru.cache, 0)
       /\ lruUsed' = IF r.ok THEN Touch(lruUsed, key) ELSE lruUsed

CacheAdd(key, val) ==
    /\ LruCall
    /\ LET r == LruAdd(lru, key, val) IN
       /\ lru' = r.c
       /\ lruRes' = Res("Add", key, val, r.ok, Nil, key \in DOMAIN lru.cache,
                      IF r.ok THEN Len(lru.ll) + 1 - Len(r.c.ll) ELSE 0)
       /\ lruUsed' = SelectSeq(IF r.ok THEN Touch(lruUsed, key) ELSE lruUsed,
                               LAMBDA k : k \in DOMAIN r.c.cache)

CacheRemove(key) ==
    /\ LruCall
    /\ lru' = LruRemove(lru, key)
    /\ lruRes' = Res("Remove", key, Nil, TRUE, Nil, key \in DOMAIN lru.cache, 0)
    /\ lruUsed' = SelectSeq(lruUsed, LAMBDA k : k \in DOMAIN lru'.cache)

CacheRemoveOldest ==
    /\ LruCall
    /\ lru' = RemoveOldest(lru)
    /\ lruRes' = Res("RemoveOldest", Nil, Nil, TRUE, Nil, FALSE,
                    Len(lru.ll) - Len(lru'.ll))
    /\ lruUsed' = SelectSeq(lruUsed, LAMBDA k : k \in DOMAIN lru'.cache)



(***************************************************************************)
(* package persistence                                                     *)
(*                                                                         *)
(* A file is a sequence of bytes.  fs is the directory dataPath: fs.dir    *)
(* maps a file name to an inode and fs.data maps an inode to its bytes, so *)
(* that an open file survives the renaming of its name.  A DatabaseFile is *)
(* a record [ino, name, offset, pos, closed]: offset is the field of the   *)
(* DatabaseFile and pos the position of its os.File, which Read and Write  *)
(* move and ReadAt and WriteAt do not.                                     *)
(***************************************************************************)
HeaderSize == 20

DataFileName == "append.data"
MergeFileName == "append.data.merge"
DataBackupFileName == "append.data.bak"

PUT == 0
DEL == 1

\* binary.BigEndian.PutUint32 and PutUint64
PutUint32(v) ==
    <<(v \div 16777216) % 256, (v \div 65536) % 256, (v \div 256) % 256, v % 256>>

PutUint64(v) ==
    LET hi == (v \div 65536) \div 65536 IN
    PutUint32(hi) \o PutUint32(v - (hi * 65536) * 65536)

\* binary.BigEndian.Uint32 and Uint64
Uint32(b) == ((b[1] * 256 + b[2]) * 256 + b[3]) * 256 + b[4]

Uint64(b) == (Uint32(SubSeq(b, 1, 4)) * 65536) * 65536 + Uint32(SubSeq(b, 5, 8))

\* NewEntry.  Keys and values here are a few bytes long, so the conversions
\* to uint32 change nothing.
NewEntry(Key, Value, Mark, Timestamp) ==
    [Key |-> Key, Value |-> Value,
     KeySize |-> Len(Key), ValueSize |-> Len(Value),
     Mark |-> Mark, Timestamp |-> Timestamp]

\* Entry.Size
Size(entry) == entry.KeySize + entry.ValueSize + HeaderSize

\* Entry.Encode
Encode(entry) ==
    PutUint32(entry.KeySize) \o PutUint32(entry.ValueSize) \o PutUint32(entry.Mark)
        \o PutUint64(entry.Timestamp)
        \o SubSeq(entry.Key, 1, entry.KeySize) \o SubSeq(entry.Value, 1, entry.ValueSize)

\* Decode: the header fields of a record; Key and Value are left unset.
Decode(date) ==
    IF Len(date) < HeaderSize
    THEN [err |-> "invalid data", entry |-> Nil]
    ELSE [err |-> "nil",
          entry |-> [Key |-> Nil, Value |-> Nil,
                     KeySize |-> Uint32(SubSeq(date, 1, 4)),
                     ValueSize |-> Uint32(SubSeq(date, 5, 8)),
                     Mark |-> Uint32(SubSeq(date, 9, 12)),
                     Timestamp |-> Uint64(SubSeq(date, 13, HeaderSize))]]

\* os.File.ReadAt of n bytes at offset off: a read that cannot fill the
\* buffer returns io.EOF; a read into an empty buffer returns no error.
ReadAt(bytes, off, n) ==
    IF n = 0 THEN [err |-> "nil", b |-> <<>>]
    ELSE IF off + n <= Len(bytes)
         THEN [err |-> "nil", b |-> SubSeq(bytes, off + 1, off + n)]
         ELSE [err |-> "EOF", b |-> <<>>]

\* os.File.WriteAt of data at offset off (off is never past the end).
WriteAt(bytes, data, off) ==
    SubSeq(bytes, 1, off) \o data \o SubSeq(bytes, off + Len(data) + 1, Len(bytes))

\* The record read at offset in a file of the given bytes, as
\* DatabaseFile.Read computes it from three ReadAt calls.
ReadRecord(bytes, offset) ==
    LET h == ReadAt(bytes, offset, HeaderSize) IN
    IF h.err # "nil" THEN [err |-> h.err, entry |-> Nil]
    ELSE LET d == Decode(h.b) IN
         IF d.err # "nil" THEN [err |-> d.err, entry |-> Nil]
         ELSE LET key == ReadAt(bytes, offset + HeaderSize, d.entry.KeySize) IN
              IF key.err # "nil" THEN [err |-> key.err, entry |-> Nil]
              ELSE LET value == ReadAt(bytes, offset + HeaderSize + d.entry.KeySize,
                                       d.entry.ValueSize) IN
                   IF value.err # "nil" THEN [err |-> value.err, entry |-> Nil]
                   ELSE [err |-> "nil",
                         entry |-> [d.entry EXCEPT !.Key = key.b, !.Value = value.b]]

\* DatabaseFile.Read on the open file f; fault tells whether the device
\* fails the read.
DbRead(disk, f, offset, fault) ==
    IF f.closed THEN [err |-> "closed", entry |-> Nil]
    ELSE IF fault THEN [err |-> "io", entry |-> Nil]
    ELSE ReadRecord(disk.data[f.ino], offset)

\* A variant of DatabaseFile.Write that returns the offset after the record.
DbWritePostBump(disk, f, entry, fault) ==
    IF f.closed \/ fault
    THEN [err |-> IF f.closed THEN "closed" ELSE "io", offset |-> 0, disk |-> disk, f |-> f]
    ELSE [err |-> "nil", offset |-> f.offset + Size(entry),
          disk |-> [disk EXCEPT !.data[f.ino] = WriteAt(@, Encode(entry), f.offset)],
          f |-> [f EXCEPT !.offset = f.offset + Size(entry)]]

\* DatabaseFile.Write: the record goes to f.offset, which then moves on by
\* the record's size; the offset the record was written at is returned.  A
\* failed WriteAt leaves the file and f.offset as they were.
DbWrite(disk, f, entry, fault) ==
    IF f.closed \/ fault
    THEN [err |-> IF f.closed THEN "closed" ELSE "io", offset |-> 0, disk |-> disk, f |-> f]
    ELSE [err |-> "nil", offset |-> f.offset,
          disk |-> [disk EXCEPT !.data[f.ino] = WriteAt(@, Encode(entry), f.offset)],
          f |-> [f EXCEPT !.offset = f.offset + Size(entry)]]

\* WriteSequence.loadIndex on a file of the given bytes whose DatabaseFile
\* offset is end, continuing at offset with the index built so far.
RECURSIVE LoadIndex(_, _, _, _)
LoadIndex(bytes, end, offset, index) ==
    IF offset = end THEN [err |-> "nil", index |-> index]
    ELSE LET r == ReadRecord(bytes, offset) IN
         IF r.err # "nil"
         THEN IF r.err = "EOF" THEN [err |-> "nil", index |-> index]
              ELSE [err |-> r.err, index |-> index]
         ELSE LoadIndex(bytes, end, offset + Size(r.entry),
                  IF r.entry.Mark = DEL THEN MapDelete(index, r.entry.Key)
                  ELSE MapStore(index, r.entry.Key, offset))

\* A fresh inode number: the least one not on the disk.
NewIno(disk) == CHOOSE n \in 1..(Cardinality(DOMAIN disk.data) + 1) :
                   /\ n \notin DOMAIN disk.data
                   /\ \A m \in 1..(n - 1) : m \in DOMAIN disk.data

\* new(path_file): os.OpenFile with O_CREATE|O_RDWR and no O_TRUNC, then
\* offset = the size of the file.  The file is opened at position 0.
OpenDb(disk, name, fault) ==
    IF fault THEN [err |-> "io", disk |-> disk, f |-> Nil]
    ELSE LET d1 == IF name \in DOMAIN disk.dir THEN disk
                   ELSE [dir |-> MapStore(disk.dir, name, NewIno(disk)),
                         data |-> MapStore(disk.data, NewIno(disk), <<>>)]
         IN [err |-> "nil", disk |-> d1,
             f |-> [ino |-> d1.dir[name], name |-> name,
                    offset |-> Len(d1.data[d1.dir[name]]), pos |-> 0,
                    closed |-> FALSE]]

\* os.Rename within the directory: the new name takes over the inode.
Rename(disk, old, new) ==
    IF old \notin DOMAIN disk.dir THEN disk
    ELSE [disk EXCEPT !.dir = MapStore(MapDelete(disk.dir, old), new, disk.dir[old])]

\* os.Remove
Remove(disk, name) == [disk EXCEPT !.dir = MapDelete(disk.dir, name)]

\* The bytes of an inode go away once no name and no open file refers to it.
Reclaim(disk, open) ==
    LET live == {disk.dir[n] : n \in DOMAIN disk.dir} \cup open IN
    [disk EXCEPT !.data = [i \in (DOMAIN disk.data) \cap live |-> disk.data[i]]]

\* NewWriteSequence(dir_path, "") on the directory: open append.data and
\* replay it.
NewWriteSequence(disk) ==
    LET o == OpenDb(disk, DataFileName, FALSE)
        l == LoadIndex(o.disk.data[o.f.ino], o.f.offset, 0, <<>>)
    IN [err |-> l.err, disk |-> o.disk,
        w |-> [index |-> l.index, databaseFile |-> o.f]]

\* WriteSequence.Put
WsPut(disk, w, key, value, timestamp, fault) ==
    LET r == DbWrite(disk, w.databaseFile, NewEntry(key, value, PUT, timestamp), fault) IN
    IF r.err # "nil" THEN [err |-> r.err, disk |-> disk, w |-> w]
    ELSE [err |-> "nil", disk |-> r.disk,
          w |-> [index |-> MapStore(w.index, key, r.offset), databaseFile |-> r.f]]

\* WriteSequence.Get
WsGet(disk, w, key, fault) ==
    IF Len(key) = 0 THEN [err |-> "key is nil", val |-> Nil]
    ELSE IF key \notin DOMAIN w.index THEN [err |-> "key not exist", val |-> Nil]
    ELSE LET r == DbRead(disk, w.databaseFile, w.index[key], fault) IN
         IF r.err # "nil" THEN [err |-> r.err, val |-> Nil]
         ELSE [err |-> "nil", val |-> r.entry.Value]

\* WriteSequence.Delete
WsDelete(disk, w, key, timestamp, fault) ==
    IF Len(key) = 0 THEN [err |-> "key is nil", disk |-> disk, w |-> w]
    ELSE IF key \notin DOMAIN w.index THEN [err |-> "nil", disk |-> disk, w |-> w]
    ELSE LET r == DbWrite(disk, w.databaseFile, NewEntry(key, Nil, DEL, timestamp), fault) IN
         IF r.err # "nil" THEN [err |-> r.err, disk |-> disk, w |-> w]
         ELSE [err |-> "nil", disk |-> r.disk,
               w |-> [index |-> MapDelete(w.index, key), databaseFile |-> r.f]]

\* The orders in which sync.Map.Range may visit the keys of an index.
RangeOrders(index) ==
    {o \in [1..Cardinality(DOMAIN index) -> DOMAIN index] :
        \A i, j \in DOMAIN o : o[i] = o[j] => i = j}

\* A variant of the Range loop that keeps the offsets of the old file.
RECURSIVE MergeRangeKeepOffsets(_, _, _, _, _, _, _)
MergeRangeKeepOffsets(disk, w, mf, order, i, new_index, fault) ==
    IF i > Len(order) THEN [disk |-> disk, mf |-> mf, new_index |-> new_index]
    ELSE LET r == DbRead(disk, w.databaseFile, w.index[order[i]],
                         fault.kind = "read" /\ fault.at = i) IN
         IF r.err # "nil" THEN [disk |-> disk, mf |-> mf, new_index |-> new_index]
         ELSE LET wr == DbWrite(disk, mf, r.entry, fault.kind = "write" /\ fault.at = i) IN
              IF wr.err # "nil"
              THEN [disk |-> disk, mf |-> mf, new_index |-> new_index]
              ELSE MergeRangeKeepOffsets(wr.disk, w, wr.f, order, i + 1,
                       MapStore(new_index, order[i], w.index[order[i]]), fault)

\* The Range loop of Merge from the i-th key of order on.  mf is the merge
\* file and new_index the index built so far; fault names the call that the
\* device fails, if any.  A failed Read or Write ends the loop (the callback
\* returns false); the error is assigned to a variable of the callback.
RECURSIVE MergeRange(_, _, _, _, _, _, _)
MergeRange(disk, w, mf, order, i, new_index, fault) ==
    IF i > Len(order) THEN [disk |-> disk, mf |-> mf, new_index |-> new_index]
    ELSE LET r == DbRead(disk, w.databaseFile, w.index[order[i]],
                         fault.kind = "read" /\ fault.at = i) IN
         IF r.err # "nil" THEN [disk |-> disk, mf |-> mf, new_index |-> new_index]
         ELSE LET wr == DbWrite(disk, mf, r.entry, fault.kind = "write" /\ fault.at = i) IN
              IF wr.err # "nil"
              THEN [disk |-> disk, mf |-> mf, new_index |-> new_index]
              ELSE MergeRange(wr.disk, w, wr.f, order, i + 1,
                              MapStore(new_index, order[i], wr.offset), fault)

\* WriteSequence.Merge.  The err tested after the Range loop is the outer
\* variable, which the callback's Read and Write errors never reach, so the
\* rotation always follows the loop.
WsMerge(disk, w, order, fault) ==
    IF w.databaseFile.offset = 0 THEN [err |-> "nil", disk |-> disk, w |-> w]
    ELSE LET o == OpenDb(disk, MergeFileName, fault.kind = "open") IN
         IF o.err # "nil" THEN [err |-> o.err, disk |-> disk, w |-> w]
         ELSE LET c == MergeRange(o.disk, w, o.f, order, 1, <<>>, fault)
                  old == [w.databaseFile EXCEPT !.closed = TRUE]
                  d1 == Rename(c.disk, old.name, DataBackupFileName)
                  d2 == Rename(d1, c.mf.name, old.name)
                  n == OpenDb(d2, DataFileName, fault.kind = "reopen")
              IN IF n.err # "nil"
                 THEN [err |-> n.err,
                       disk |-> Reclaim(Remove(Rename(d2, DataBackupFileName, old.name),
                                               c.mf.name), {}),
                       w |-> [w EXCEPT !.databaseFile = old]]
                 ELSE [err |-> "nil",
                       disk |-> Reclaim(Remove(Remove(n.disk, DataBackupFileName),
                                               c.mf.name), {n.f.ino}),
                       w |-> [index |-> c.new_index, databaseFile |-> n.f]]

\* WriteSequence.Backup(backupFileName): the backup file is opened with
\* O_RDWR|O_CREATE and no O_TRUNC, and io.Copy reads the data file from the
\* position of its os.File to the end, writes that at the start of the
\* backup file and leaves the position at the end.  fault names the call
\* that the device fails, if any.
WsBackup(disk, w, backupFileName, fault) ==
    LET o == OpenDb(disk, backupFileName, fault = "open")
        src == w.databaseFile
        bytes == disk.data[src.ino]
    IN IF o.err # "nil" THEN [err |-> o.err, disk |-> disk, w |-> w]
       ELSE IF src.closed THEN [err |-> "closed", disk |-> o.disk, w |-> w]
       ELSE IF fault = "copy" THEN [err |-> "io", disk |-> o.disk, w |-> w]
       ELSE [err |-> "nil",
             disk |-> [o.disk EXCEPT !.data[o.f.ino] =
                          WriteAt(@, SubSeq(bytes, src.pos + 1, Len(bytes)), 0)],
             w |-> [w EXCEPT !.databaseFile.pos = Len(bytes)]]

\* The directory once the process has executed the first step steps of the
\* file rotation of Merge on the data file old and the merge file mf:
\* 1 close the old file, 2 rename it to append.data.bak, 3 rename the merge
\* file to append.data, 4 reopen append.data, 5 remove append.data.bak.
RotationDisk(disk, old, mf, step) ==
    LET d2 == Rename(disk, old.name, DataBackupFileName)
        d3 == Rename(d2, mf.name, old.name)
    IN IF step <= 1 THEN disk
       ELSE IF step = 2 THEN d2
       ELSE IF step <= 4 THEN d3
       ELSE Remove(d3, DataBackupFileName)

RotationSteps == 1..5

(***************************************************************************)
(* The write sequence driven directly by a single caller.  lastPut is the  *)
(* value of the latest Put that returned nil, per key; stopped tells       *)
(* whether the process has stopped, its files closed by the system.        *)
(***************************************************************************)
VARIABLES fs, ws, wsRes, wsOps, wsFaults, lastPut, stopped

wsVars == <<fs, ws, wsRes, wsOps, wsFaults, lastPut, stopped>>

WsKeys == Keys \cup {EmptyKey}
WsValues == Values \cup {Nil}
Timestamps == 1..MaxClock

\* What the last call was and the error it returned; val is the value passed
\* or returned, size the offset of the data file before the call and failed
\* the call that the device failed during it ("none" when it failed none).
WsRes(op, key, val, err, failed) ==
    [op |-> op, key |-> key, val |-> val, err |-> err, failed |-> failed,
     size |-> IF op = "NewWriteSequence" THEN 0 ELSE ws.databaseFile.offset]

\* The name of the call that a fault fails.
Failed(fault, call) == IF fault THEN call ELSE "none"

\* An empty directory on which NewWriteSequence has been called.
WsInit ==
    /\ LET n == NewWriteSequence([dir |-> <<>>, data |-> <<>>]) IN
       /\ fs = n.disk
       /\ ws = n.w
    /\ wsRes = WsRes("NewWriteSequence", Nil, Nil, "nil", "none")
    /\ wsOps = 0
    /\ wsFaults = 0
    /\ lastPut = <<>>
    /\ stopped = FALSE

\* One more call on the write sequence; the device may fail a call while
\* fewer than MaxFaults calls have failed.
WsCall(fault) ==
    /\ ~stopped
    /\ wsOps < MaxWsOps
    /\ wsOps' = wsOps + 1
    /\ fault => wsFaults < MaxFaults
    /\ wsFaults' = IF fault THEN wsFaults + 1 ELSE wsFaults

Put(key, value) ==
    \E timestamp \in Timestamps, fault \in BOOLEAN :
        /\ WsCall(fault)
        /\ LET r == WsPut(fs, ws, key, value, timestamp, fault) IN
           /\ fs' = r.disk
           /\ ws' = r.w
           /\ wsRes' = WsRes("Put", key, value, r.err, Failed(fault, "write"))
           /\ lastPut' = IF r.err = "nil" THEN MapStore(lastPut, key, value) ELSE lastPut
           /\ UNCHANGED stopped

Get(key) ==
    \E fault \in BOOLEAN :
        /\ WsCall(fault)
        /\ LET r == WsGet(fs, ws, key, fault) IN
           /\ wsRes' = WsRes("Get", key, r.val, r.err, Failed(fault, "read"))
           /\ UNCHANGED <<fs, ws, lastPut, stopped>>

Delete(key) ==
    \E timestamp \in Timestamps, fault \in BOOLEAN :
        /\ WsCall(fault)
        /\ LET r == WsDelete(fs, ws, key, timestamp, fault) IN
           /\ fs' = r.disk
           /\ ws' = r.w
           /\ wsRes' = WsRes("Delete", key, Nil, r.err, Failed(fault, "write"))
           /\ UNCHANGED <<lastPut, stopped>>

MergeFaults(n) ==
    {[kind |-> "none", at |-> 0], [kind |-> "open", at |-> 0], [kind |-> "reopen", at |-> 0]}
        \cup {[kind |-> k, at |-> i] : k \in {"read", "write"}, i \in 1..n}

\* Merge on an empty data file returns before any call that could fail.
Merge ==
    \E order \in RangeOrders(ws.index), fault \in MergeFaults(Cardinality(DOMAIN ws.index)) :
        /\ ws.databaseFile.offset = 0 => fault.kind = "none"
        /\ WsCall(fault.kind # "none")
        /\ LET r == WsMerge(fs, ws, order, fault) IN
           /\ fs' = r.disk
           /\ ws' = r.w
           /\ wsRes' = WsRes("Merge", Nil, Nil, r.err, fault.kind)
           /\ UNCHANGED <<lastPut, stopped>>

\* The paths that Backup is called with, in the data directory.
BackupPaths == {"append.data.1", "append.data.2"}

Backup(backupFileName) ==
    \E fault \in {"none", "open", "copy"} :
        /\ WsCall(fault # "none")
        /\ LET r == WsBackup(fs, ws, backupFileName, fault) IN
           /\ fs' = r.disk
           /\ ws' = r.w
           /\ wsRes' = WsRes("Backup", backupFileName, Nil, r.err, fault)
           /\ UNCHANGED <<lastPut, stopped>>

\* The process stops during a Merge, after step steps of the file rotation
\* that follows the Range loop.  The deferred os.Remove does not run; the
\* system closes the files, and a file without a name is gone.
MergeStop(step) ==
    \E order \in RangeOrders(ws.index) :
        /\ ws.databaseFile.offset # 0
        /\ WsCall(FALSE)
        /\ LET o == OpenDb(fs, MergeFileName, FALSE)
               c == MergeRange(o.disk, ws, o.f, order, 1, <<>>, [kind |-> "none", at |-> 0])
           IN fs' = Reclaim(RotationDisk(c.disk, ws.databaseFile, c.mf, step), {})
        /\ ws' = [ws EXCEPT !.databaseFile.closed = TRUE]
        /\ wsRes' = WsRes("Merge", Nil, Nil, "stopped", "none")
        /\ stopped' = TRUE
        /\ UNCHANGED lastPut

\* The system stops during the WriteAt of a Put, with only the first n bytes
\* of the record in the file: n is one byte short of the header, the whole
\* header, or one byte short of the record.
PutStop(key, value) ==
    \E timestamp \in Timestamps :
       \E n \in {HeaderSize - 1, HeaderSize, HeaderSize + Len(key) + Len(value) - 1} :
          /\ n < HeaderSize + Len(key) + Len(value)
          /\ ~ws.databaseFile.closed
          /\ WsCall(FALSE)
          /\ fs' = [fs EXCEPT !.data[ws.databaseFile.ino] =
                       WriteAt(@, SubSeq(Encode(NewEntry(key, value, PUT, timestamp)), 1, n),
                               ws.databaseFile.offset)]
          /\ ws' = [ws EXCEPT !.databaseFile.closed = TRUE]
          /\ wsRes' = WsRes("Put", key, value, "stopped", "none")
          /\ stopped' = TRUE
          /\ UNCHANGED lastPut

\* The process starts again on the directory: NewWriteSequence(dir_path, "").
\* When it returns an error there is no write sequence, and the process
\* stays stopped.
Restart ==
    /\ stopped
    /\ wsOps < MaxWsOps
    /\ wsOps' = wsOps + 1
    /\ LET n == NewWriteSequence(fs) IN
       /\ fs' = n.disk
       /\ ws' = IF n.err = "nil" THEN n.w ELSE ws
       /\ wsRes' = WsRes("NewWriteSequence", Nil, Nil, n.err, "none")
       /\ stopped' = (n.err # "nil")
    /\ UNCHANGED <<wsFaults, lastPut>>

(***************************************************************************)
(* package consistenthash                                                  *)
(*                                                                         *)
(* A Map is a record [replicas, hash, keys, hashMap]: hash is the Hash     *)
(* function given to New, a function from byte strings to hash values,     *)
(* keys the ring (a sequence of hashes) and hashMap the map from a hash to *)
(* the name of a peer.  ringAdded is every name passed to Add so far, in   *)
(* the order passed, and ringRes the last call and what it returned.       *)
(***************************************************************************)
VARIABLES ring, ringAdded, ringRes, ringOps

ringVars == <<ring, ringAdded, ringRes, ringOps>>

\* Peer names "A", "B", ... and the empty name.
PeerOf(i) == <<64 + i>>
PeerNames == {PeerOf(i) : i \in 1..NumPeers} \cup {EmptyKey}

\* strconv.Itoa for i >= 0
RECURSIVE Itoa(_)
Itoa(i) == IF i < 10 THEN <<48 + i>> ELSE Itoa(i \div 10) \o <<48 + (i % 10)>>

\* The byte strings that are hashed: the names of the virtual nodes and the
\* keys that are looked up.
HashValues == 0..MaxHash
HashInputs ==
    {Itoa(i) \o P : i \in 0..(MaxReplicas - 1), P \in PeerNames} \cup Keys \cup {EmptyKey}

\* consistenthash.New(replicas, fn), fn not nil
MapNew(replicas, fn) ==
    [replicas |-> replicas, hash |-> fn, keys |-> <<>>, hashMap |-> <<>>]

\* sort.Ints, as an insertion sort
RECURSIVE InsertInt(_, _)
InsertInt(s, x) ==
    IF Len(s) = 0 THEN <<x>>
    ELSE IF x <= s[1] THEN <<x>> \o s
    ELSE <<s[1]>> \o InsertInt(Tail(s), x)

RECURSIVE SortInts(_)
SortInts(s) == IF Len(s) = 0 THEN <<>> ELSE InsertInt(SortInts(Tail(s)), s[1])

\* The inner loop of Add from replica i on: the hash of Itoa(i) + key is
\* appended to keys and mapped to key.
RECURSIVE AddReplicas(_, _, _)
AddReplicas(mp, key, i) ==
    IF i >= mp.replicas THEN mp
    ELSE LET hash == mp.hash[Itoa(i) \o key] IN
         AddReplicas([mp EXCEPT !.keys = Append(@, hash),
                                !.hashMap = MapStore(@, hash, key)],
                     key, i + 1)

\* The outer loop of Add from the j-th of keys on.
RECURSIVE AddPeers(_, _, _)
AddPeers(mp, keys, j) ==
    IF j > Len(keys) THEN mp
    ELSE AddPeers(AddReplicas(mp, keys[j], 0), keys, j + 1)

\* A variant of Map.Add that leaves the ring as appended, not sorted.
MapAddUnsorted(mp, keys) == AddPeers(mp, keys, 1)

\* Map.Add(keys...)
MapAdd(mp, keys) ==
    LET a == AddPeers(mp, keys, 1) IN [a EXCEPT !.keys = SortInts(a.keys)]

\* sort.Search(n, f) with f(i) = keys[i] >= hash, on the indices i..j-1
\* (counted from 0): a binary search.
RECURSIVE Search(_, _, _, _)
Search(keys, hash, i, j) ==
    IF i >= j THEN i
    ELSE LET h == (i + j) \div 2 IN
         IF ~(keys[h + 1] >= hash) THEN Search(keys, hash, h + 1, j)
         ELSE Search(keys, hash, i, h)

\* A variant of Map.Get that does not wrap around the ring.
MapGetNoWrap(mp, key) ==
    IF Len(mp.keys) = 0 THEN EmptyKey
    ELSE LET idx == Search(mp.keys, mp.hash[key], 0, Len(mp.keys))
         IN IF idx = Len(mp.keys) THEN EmptyKey
            ELSE mp.hashMap[mp.keys[idx + 1]]

\* Map.Get(key)
MapGet(mp, key) ==
    IF Len(mp.keys) = 0 THEN EmptyKey
    ELSE LET idx == Search(mp.keys, mp.hash[key], 0, Len(mp.keys))
         IN mp.hashMap[mp.keys[(idx % Len(mp.keys)) + 1]]

RingRes(op, key, peer) == [op |-> op, key |-> key, peer |-> peer]

\* New(replicas, fn) for any replicas up to MaxReplicas and any function fn.
\* The names of the virtual nodes from replicas on are never hashed, so fn
\* is taken to be 0 on them.
RingInit ==
    /\ \E replicas \in 0..MaxReplicas, fn \in [HashInputs -> HashValues] :
          /\ \A i \in replicas..(MaxReplicas - 1), P \in PeerNames : fn[Itoa(i) \o P] = 0
          /\ ring = MapNew(replicas, fn)
    /\ ringAdded = <<>>
    /\ ringRes = RingRes("New", Nil, Nil)
    /\ ringOps = 0

\* No ring is in use.
RingIdle ==
    /\ ring = MapNew(0, [s \in HashInputs |-> 0])
    /\ ringAdded = <<>>
    /\ ringRes = RingRes("New", Nil, Nil)
    /\ ringOps = 0

\* The sequences of names that one call of Add is given.
AddArgs == {<<>>} \cup {<<P>> : P \in PeerNames}
              \cup {<<P, Q>> : P \in PeerNames, Q \in PeerNames}

RingAdd(keys) ==
    /\ ringOps < MaxRingOps
    /\ ringOps' = ringOps + 1
    /\ ring' = MapAdd(ring, keys)
    /\ ringAdded' = ringAdded \o keys
    /\ ringRes' = RingRes("Add", Nil, Nil)

\* Get does not change the ring; the number of calls is not bounded.
RingGet(key) ==
    /\ ringRes' = RingRes("Get", key, MapGet(ring, key))
    /\ UNCHANGED <<ring, ringAdded, ringOps>>

(***************************************************************************)
(* The state outside the LRU, the write sequence and the Group.            *)
(***************************************************************************)
\* http is, per goroutine, the request that HTTPPool.ServeKey is serving or
\* has served: state is "none", "serving" (the Group has been called) or
\* "done", method and group are those of the request, status is the status
\* code answered and body the bytes written.
\* locks is the state of the locks inside a shard, next to c.mu (mu): ws is
\* w.mutex of the write sequence, file the f.mutex of the data file and
\* merge that of the merge file, each with its writer and readers; pending
\* is, per lock, the goroutines blocked in Lock, which keep new readers out.
\* Per goroutine, op, key and val are the shard operation it is in ("idle"
\* when in none), todo the lock calls it has still to make and held the
\* locks it holds, in the order it took them.
\* overlap is history: it holds <<p, n, q, k>> when goroutine q called
\* Group.Delete, as its call number k + 1, on the key of the Get that
\* goroutine p was inside at that moment as its call number n + 1.
VARIABLES http, locks, overlap

extVars == <<ringVars, http, lruUsed, locks, overlap>>

NoLocks ==
    [ws |-> [writer |-> 0, readers |-> {}],
     file |-> [writer |-> 0, readers |-> {}],
     merge |-> [writer |-> 0, readers |-> {}],
     pending |-> [on \in {"shard", "ws", "file", "merge"} |-> {}],
     op |-> [p \in 1..NumProcs |-> "idle"],
     key |-> [p \in 1..NumProcs |-> <<>>],
     val |-> [p \in 1..NumProcs |-> <<>>],
     todo |-> [p \in 1..NumProcs |-> <<>>],
     held |-> [p \in 1..NumProcs |-> <<>>]]

ExtIdle ==
    /\ RingIdle
    /\ lruUsed = <<>>
    /\ locks = NoLocks
    /\ overlap = {}
    /\ http = [p \in 1..NumProcs |-> [state |-> "none", method |-> "", group |-> "", status |-> 0, body |-> Nil]]

(***************************************************************************)
(* package singleflight, type cache (the shard) and type Group             *)
(*                                                                         *)
(* Goroutines 1..NumProcs call Group.Get.  The shard's LRU is lru and its  *)
(* write sequence is ws on the directory fs.  mu is the shard's RWMutex.   *)
(* m is GroupCall.m, from a key to a call; calls holds every call record   *)
(* made so far, a call being named by its position.  A call record has the *)
(* key it was made for, done (the WaitGroup counter is back to 0), val and  *)
(* err, and fnRet, the result its fn returned (Nil while it has not); it   *)
(* also keeps what happened inside fn: peerFailed (the remote fetch        *)
(* failed), addErr (the error that cache.add returned) and stored (the LRU *)
(* accepted the value).                                                    *)
(* pc is where each goroutine is, pl its local variables (key, the call c  *)
(* it holds, val and err) and ret what its last Get returned.  genRuns     *)
(* counts, per key, the invocations of fn since the key's record was last  *)
(* inserted into a map that did not hold the key.  cfg is the              *)
(* configuration: the keys that the peer picker routes to a remote peer    *)
(* and whether persistence is enabled.                                     *)
(***************************************************************************)
VARIABLES mu, m, calls, pc, pl, ret, genRuns, gets, cfg

groupVars == <<mu, m, calls, pc, pl, ret, genRuns, gets, cfg>>

Procs == 1..NumProcs

NoErr == "nil"

Locals(key, c, val, err) == [key |-> key, c |-> c, val |-> val, err |-> err]

\* The result of a Get: via is the call whose result Do returned, 0 when the
\* Get did not go through Do, and n counts the goroutine's returns.
Result(val, err, via, n) == [val |-> val, err |-> err, via |-> via, n |-> n]

\* NewGroup with cacheBytes = CapBytes, a peer picker that routes the first
\* key to a remote peer and every other key to this node, and persistence
\* off or on an empty directory.
GroupInit ==
    /\ lru = New(CapBytes)
    /\ lruRes = Res("New", Nil, Nil, TRUE, Nil, FALSE, 0)
    /\ lruOps = 0
    /\ WsInit
    /\ mu = [writer |-> 0, readers |-> {}]
    /\ m = <<>>
    /\ calls = <<>>
    /\ pc = [p \in Procs |-> "idle"]
    /\ pl = [p \in Procs |-> Locals(Nil, 0, Nil, NoErr)]
    /\ ret = [p \in Procs |-> Result(Nil, NoErr, 0, 0)]
    /\ genRuns = [k \in Keys |-> 0]
    /\ gets = 0
    /\ \E persist \in BOOLEAN : cfg = [remote |-> {KeyOf(1)}, persist |-> persist]
    /\ ExtIdle

\* No goroutine has called the Group.
ProcsIdle ==
    /\ mu = [writer |-> 0, readers |-> {}]
    /\ m = <<>>
    /\ calls = <<>>
    /\ pc = [p \in Procs |-> "idle"]
    /\ pl = [p \in Procs |-> Locals(Nil, 0, Nil, NoErr)]
    /\ ret = [p \in Procs |-> Result(Nil, NoErr, 0, 0)]
    /\ genRuns = [k \in Keys |-> 0]
    /\ gets = 0

\* The state of the goroutines and of the Group when only the LRU or only
\* the write sequence is driven.
GroupIdle ==
    /\ ProcsIdle
    /\ cfg = [remote |-> {}, persist |-> FALSE]

\* A goroutine takes a step only while no goroutine has panicked.
Running(p, at) == pc[p] = at /\ lru.status = "ok"

Return(p, val, err, via) ==
    /\ ret' = [ret EXCEPT ![p] = Result(val, err, via, ret[p].n + 1)]
    /\ pc' = [pc EXCEPT ![p] = "idle"]
    /\ pl' = [pl EXCEPT ![p] = Locals(Nil, 0, Nil, NoErr)]

\* Group.Get, entry: an empty key is rejected, any other key goes to the shard.
GetStart(p, key) ==
    /\ Running(p, "idle")
    /\ gets < MaxGets
    /\ gets' = gets + 1
    /\ IF key = EmptyKey
       THEN Return(p, Nil, "key is required", 0)
       ELSE /\ pc' = [pc EXCEPT ![p] = "get"]
            /\ pl' = [pl EXCEPT ![p] = Locals(key, 0, Nil, NoErr)]
            /\ UNCHANGED ret
    /\ UNCHANGED <<lruVars, wsVars, mu, m, calls, genRuns, cfg>>

\* cache.get: c.mu.RLock()
ShardGetRLock(p) ==
    /\ Running(p, "get")
    /\ mu.writer = 0
    /\ mu' = [mu EXCEPT !.readers = @ \cup {p}]
    /\ pc' = [pc EXCEPT ![p] = "get_locked"]
    /\ UNCHANGED <<lruVars, wsVars, m, calls, pl, ret, genRuns, gets, cfg>>

\* Goroutine p is inside c.data.Get on a present key: it calls MoveToFront.
Moving(p) == pc[p] = "get_locked" /\ pl[p].key \in DOMAIN lru.cache

\* The MoveToFront of p runs while another reader is inside c.data.Get on a
\* present key, and one of the two writes the list (MoveToFront writes
\* nothing only when the element is already at the front): a data race.
GetRace(p) ==
    \E q \in Procs \ {p} :
       /\ Moving(p) /\ Moving(q)
       /\ ~(pl[p].key = pl[q].key /\ lru.ll[1].id = lru.cache[pl[p].key])

\* cache.get under the read lock: c.data.Get(key), RUnlock; Group.Get returns
\* the value on a hit and goes on to load on a miss.  Under a data race the
\* list is either as if the calls ran one after the other or is left with
\* broken links (status "race"), which ends the run.
ShardGet(p) ==
    /\ Running(p, "get_locked")
    /\ LET r == LruGet(lru, pl[p].key) IN
       /\ lru' \in {r.c} \cup (IF GetRace(p) THEN {[r.c EXCEPT !.status = "race"]} ELSE {})
       /\ lruRes' = Res("Get", pl[p].key, Nil, r.ok, r.val, pl[p].key \in DOMAIN lru.cache, 0)
       /\ IF r.ok
          THEN Return(p, r.val, NoErr, 0)
          ELSE /\ pc' = [pc EXCEPT ![p] = "do"]
               /\ UNCHANGED <<pl, ret>>
    /\ mu' = [mu EXCEPT !.readers = @ \ {p}]
    /\ UNCHANGED <<lruOps, wsVars, m, calls, genRuns, gets, cfg>>

\* A variant of the map lookup of Do that never finds a call.
InFlightNever(key) == FALSE

\* GroupCall.Do: c, ok := g.m[key]
InFlight(key) == key \in DOMAIN m

\* GroupCall.Do under g.mu: a caller that finds a call for the key keeps it
\* and goes to wait; another makes a call record, stores it in the map and
\* goes on to run fn, the closure of Group.load, which starts with PickPeer.
DoEnter(p) ==
    /\ Running(p, "do")
    /\ LET key == pl[p].key IN
       IF InFlight(key)
       THEN /\ pl' = [pl EXCEPT ![p].c = m[key]]
            /\ pc' = [pc EXCEPT ![p] = "wait"]
            /\ UNCHANGED <<m, calls, genRuns>>
       ELSE LET c == Len(calls) + 1 IN
            /\ calls' = Append(calls, [key |-> key, done |-> FALSE, val |-> Nil,
                                       err |-> NoErr, fnRet |-> Nil,
                                       peerFailed |-> FALSE, addErr |-> NoErr,
                                       stored |-> FALSE])
            /\ genRuns' = [genRuns EXCEPT ![key] = IF key \in DOMAIN m THEN @ + 1 ELSE 1]
            /\ m' = MapStore(m, key, c)
            /\ pl' = [pl EXCEPT ![p].c = c]
            /\ pc' = [pc EXCEPT ![p] = IF key \in cfg.remote THEN "peer" ELSE "local"]
    /\ UNCHANGED <<lruVars, wsVars, mu, ret, gets, cfg>>

\* A variant of c.wg.Wait() that does not wait.
WaitDoneNoWait(c) == TRUE

\* A variant of c.wg.Wait() that never returns.
WaitDoneNever(c) == FALSE

\* c.wg.Wait() returns once the WaitGroup counter of the call is 0.
WaitDone(c) == calls[c].done

\* GroupCall.Do, a caller that found a call: wait, then return c.val, c.err.
DoWait(p) ==
    /\ Running(p, "wait")
    /\ WaitDone(pl[p].c)
    /\ Return(p, calls[pl[p].c].val, calls[pl[p].c].err, pl[p].c)
    /\ UNCHANGED <<lruVars, wsVars, mu, m, calls, genRuns, gets, cfg>>

\* fn has returned (val, err): kept in the goroutine's locals until Do
\* stores it in the call record.
FnReturn(p, val, err) ==
    /\ pl' = [pl EXCEPT ![p].val = val, ![p].err = err]
    /\ pc' = [pc EXCEPT ![p] = "fn_done"]
    /\ calls' = [calls EXCEPT ![pl[p].c].fnRet = <<val, err>>]

\* fn has returned (val, err) after cache.add returned addErr.
FnReturnAdded(p, val, err, addErr, stored) ==
    /\ pl' = [pl EXCEPT ![p].val = val, ![p].err = err]
    /\ pc' = [pc EXCEPT ![p] = "fn_done"]
    /\ calls' = [calls EXCEPT ![pl[p].c].fnRet = <<val, err>>,
                              ![pl[p].c].addErr = addErr,
                              ![pl[p].c].stored = stored]

\* Group.getFromPeer: the peer answers with a value, and fn returns it, or
\* the fetch fails, and fn goes on to getLocally.
GetFromPeer(p) ==
    /\ Running(p, "peer")
    /\ \/ \E value \in Values : FnReturn(p, value, NoErr)
       \/ /\ pc' = [pc EXCEPT ![p] = "local"]
          /\ calls' = [calls EXCEPT ![pl[p].c].peerFailed = TRUE]
          /\ UNCHANGED pl
    /\ UNCHANGED <<lruVars, wsVars, mu, m, ret, genRuns, gets, cfg>>

\* Group.getLocally: g.getter.Get(key) fails, and fn returns the error, or
\* returns bytes, which go to populateCache.
GetLocally(p) ==
    /\ Running(p, "local")
    /\ \/ FnReturn(p, Nil, "getter")
       \/ \E value \in Values :
             /\ pl' = [pl EXCEPT ![p].val = value]
             /\ pc' = [pc EXCEPT ![p] = "add"]
             /\ UNCHANGED calls
    /\ UNCHANGED <<lruVars, wsVars, mu, m, ret, genRuns, gets, cfg>>

\* cache.add: c.mu.Lock()
ShardAddLock(p) ==
    /\ Running(p, "add")
    /\ mu.writer = 0 /\ mu.readers = {}
    /\ mu' = [mu EXCEPT !.writer = p]
    /\ pc' = [pc EXCEPT ![p] = "add_locked"]
    /\ UNCHANGED <<lruVars, wsVars, m, calls, pl, ret, genRuns, gets, cfg>>

\* A variant of cache.add that never adds to the LRU.
CacheAddLockedLogOnly(disk, w, c, persist, key, val, timestamp, fault) ==
    LET put == IF persist THEN WsPut(disk, w, key, val, timestamp, fault)
               ELSE [err |-> NoErr, disk |-> disk, w |-> w]
    IN IF put.err # NoErr
       THEN [err |-> put.err, disk |-> disk, w |-> w, c |-> c]
       ELSE [err |-> NoErr, disk |-> put.disk, w |-> put.w, c |-> c]

\* A variant of cache.add that adds to the LRU whether or not Put failed.
CacheAddLockedAlways(disk, w, c, persist, key, val, timestamp, fault) ==
    LET put == IF persist THEN WsPut(disk, w, key, val, timestamp, fault)
               ELSE [err |-> NoErr, disk |-> disk, w |-> w]
    IN [err |-> put.err, disk |-> put.disk, w |-> put.w, c |-> LruAdd(c, key, val).c]

\* cache.add under the lock, on the shard (disk, w, c): Put to the write
\* sequence when persistence is enabled, then c.data.Add unless Put failed.
CacheAddLocked(disk, w, c, persist, key, val, timestamp, fault) ==
    LET put == IF persist THEN WsPut(disk, w, key, val, timestamp, fault)
               ELSE [err |-> NoErr, disk |-> disk, w |-> w]
    IN IF put.err # NoErr
       THEN [err |-> put.err, disk |-> disk, w |-> w, c |-> c]
       ELSE [err |-> NoErr, disk |-> put.disk, w |-> put.w, c |-> LruAdd(c, key, val).c]

\* cache.add under the lock, then Unlock; populateCache drops the error and
\* getLocally returns (value, nil).  A panic of c.data.Add ends the run.
ShardAdd(p) ==
    /\ Running(p, "add_locked")
    /\ \E timestamp \in Timestamps, fault \in BOOLEAN :
          /\ fault => (cfg.persist /\ wsFaults < MaxFaults)
          /\ wsFaults' = IF fault THEN wsFaults + 1 ELSE wsFaults
          /\ LET r == CacheAddLocked(fs, ws, lru, cfg.persist, pl[p].key, pl[p].val,
                                     timestamp, fault) IN
             /\ fs' = r.disk
             /\ ws' = r.w
             /\ lru' = r.c
             /\ lastPut' = IF cfg.persist /\ r.err = NoErr
                           THEN MapStore(lastPut, pl[p].key, pl[p].val) ELSE lastPut
             /\ IF r.c.status = "ok"
                THEN FnReturnAdded(p, pl[p].val, NoErr, r.err,
                                   r.err = NoErr /\ ~Oversized(lru, pl[p].key, pl[p].val))
                ELSE /\ pc' = [pc EXCEPT ![p] = "panicked"]
                     /\ UNCHANGED <<pl, calls>>
    /\ mu' = [mu EXCEPT !.writer = 0]
    /\ UNCHANGED <<lruRes, lruOps, wsRes, wsOps, stopped, m, ret, genRuns, gets, cfg>>

\* GroupCall.Do after fn: c.val, c.err = fn(); c.wg.Done()
DoDone(p) ==
    /\ Running(p, "fn_done")
    /\ calls' = [calls EXCEPT ![pl[p].c].val = pl[p].val,
                              ![pl[p].c].err = pl[p].err,
                              ![pl[p].c].done = TRUE]
    /\ pc' = [pc EXCEPT ![p] = "del"]
    /\ UNCHANGED <<lruVars, wsVars, mu, m, pl, ret, genRuns, gets, cfg>>

\* GroupCall.Do, the end: delete(g.m, key) under g.mu, return c.val, c.err.
DoDelete(p) ==
    /\ Running(p, "del")
    /\ m' = MapDelete(m, pl[p].key)
    /\ Return(p, calls[pl[p].c].val, calls[pl[p].c].err, pl[p].c)
    /\ UNCHANGED <<lruVars, wsVars, mu, calls, genRuns, gets, cfg>>

\* cache.delete under the lock: Delete on the write sequence when persistence
\* is enabled, then c.data.Remove unless Delete failed.
CacheDeleteLocked(disk, w, c, persist, key, timestamp, fault) ==
    LET del == IF persist THEN WsDelete(disk, w, key, timestamp, fault)
               ELSE [err |-> NoErr, disk |-> disk, w |-> w]
    IN IF del.err # NoErr
       THEN [err |-> del.err, disk |-> disk, w |-> w, c |-> c]
       ELSE [err |-> NoErr, disk |-> del.disk, w |-> del.w, c |-> LruRemove(c, key)]

\* Group.Delete, entry: an empty key is rejected, any other key goes to the
\* shard's delete.
DeleteStart(p, key) ==
    /\ Running(p, "idle")
    /\ gets < MaxGets
    /\ gets' = gets + 1
    /\ IF key = EmptyKey
       THEN Return(p, Nil, "key is required", 0)
       ELSE /\ pc' = [pc EXCEPT ![p] = "delete"]
            /\ pl' = [pl EXCEPT ![p] = Locals(key, 0, Nil, NoErr)]
            /\ UNCHANGED ret
    /\ UNCHANGED <<lruVars, wsVars, mu, m, calls, genRuns, cfg>>

\* cache.delete from Lock to Unlock; Group.Delete drops the error and
\* returns nil.  wsRes keeps what cache.delete returned.
ShardDelete(p) ==
    /\ Running(p, "delete")
    /\ mu.writer = 0 /\ mu.readers = {}
    /\ \E timestamp \in Timestamps, fault \in BOOLEAN :
          /\ fault => (cfg.persist /\ pl[p].key \in DOMAIN ws.index /\ wsFaults < MaxFaults)
          /\ wsFaults' = IF fault THEN wsFaults + 1 ELSE wsFaults
          /\ LET r == CacheDeleteLocked(fs, ws, lru, cfg.persist, pl[p].key,
                                        timestamp, fault) IN
             /\ fs' = r.disk
             /\ ws' = r.w
             /\ lru' = r.c
             /\ wsRes' = WsRes("delete", pl[p].key, Nil, r.err, Failed(fault, "write"))
             /\ lastPut' = IF r.err = NoErr THEN MapDelete(lastPut, pl[p].key) ELSE lastPut
    /\ Return(p, Nil, NoErr, 0)
    /\ UNCHANGED <<lruRes, lruOps, wsOps, stopped, mu, m, calls, genRuns, gets, cfg>>

\* Where a goroutine is while it is inside Group.Get.
GetPcs == {"get", "get_locked", "do", "wait", "peer", "local", "add", "add_locked",
           "fn_done", "del"}

\* Group.Delete, entry, called while other goroutines may be inside Group.Get:
\* DeleteStart, with the Gets of the key that are in progress put on record.
DeleteDuringGets(p, key) ==
    /\ DeleteStart(p, key)
    /\ overlap' = overlap \cup
                     {<<q, ret[q].n, p, ret[p].n>> :
                         q \in {r \in Procs : pc[r] \in GetPcs /\ pl[r].key = key}}
    /\ UNCHANGED <<ringVars, http, lruUsed, locks>>

(***************************************************************************)
(* HTTPPool.ServeKey, the handler of <base>/<group>/<key>, for a process   *)
(* whose registry holds the one group "scores".                            *)
(***************************************************************************)
\* proto.Marshal(&pb.KVResponse{Value: value}): field 1 of wire type 2 (tag
\* byte 10), the length as a one-byte varint, the bytes; proto3 leaves an
\* empty field out.  It returns no error for a message of this type.
Marshal(value) == IF Len(value) = 0 THEN <<>> ELSE <<10, Len(value)>> \o value

\* ServeKey up to the call of the Group: an unknown group is answered 404;
\* GET calls group.Get, DELETE calls group.Delete, and any other method
\* returns having written nothing (status 200, empty body).
ServeKey(p, method, groupName, key) ==
    /\ http[p].state # "serving"
    /\ IF groupName # "scores"
       THEN /\ Running(p, "idle")
            /\ http' = [http EXCEPT ![p] = [state |-> "done", method |-> method,
                                               group |-> groupName,
                                               status |-> 404, body |-> Nil]]
            /\ UNCHANGED <<lruVars, wsVars, groupVars>>
       ELSE IF method = "GET"
       THEN /\ GetStart(p, key)
            /\ http' = [http EXCEPT ![p] = [state |-> "serving", method |-> method,
                                               group |-> groupName,
                                               status |-> 0, body |-> Nil]]
       ELSE IF method = "DELETE"
       THEN /\ DeleteStart(p, key)
            /\ http' = [http EXCEPT ![p] = [state |-> "serving", method |-> method,
                                               group |-> groupName,
                                               status |-> 0, body |-> Nil]]
       ELSE /\ Running(p, "idle")
            /\ http' = [http EXCEPT ![p] = [state |-> "done", method |-> method,
                                               group |-> groupName,
                                               status |-> 200, body |-> Nil]]
            /\ UNCHANGED <<lruVars, wsVars, groupVars>>
    /\ UNCHANGED <<ringVars, lruUsed, locks, overlap>>

\* ServeKey once the Group has returned.  GET: the err of group.Get is
\* assigned again by proto.Marshal before it is tested, so the answer is 200
\* with the serialized view, whatever group.Get returned.  DELETE: 500 when
\* group.Delete returned an error.
ServeKeyReply(p) ==
    /\ http[p].state = "serving"
    /\ Running(p, "idle")
    /\ http' = [http EXCEPT ![p] =
                  IF http[p].method = "GET"
                  THEN [@ EXCEPT !.state = "done", !.status = 200,
                                 !.body = Marshal(ret[p].val)]
                  ELSE IF ret[p].err # NoErr
                  THEN [@ EXCEPT !.state = "done", !.status = 500]
                  ELSE [@ EXCEPT !.state = "done", !.status = 200]]
    /\ UNCHANGED <<lruVars, wsVars, groupVars, ringVars, lruUsed, locks, overlap>>

(***************************************************************************)
(* The shard (type cache) with persistence enabled, driven directly by a   *)
(* single caller: every method runs from Lock to Unlock in one step.       *)
(* wsRes is then the last call on the shard and lastPut the value of the   *)
(* latest add of a key that returned nil, with no later add or delete of   *)
(* the key.                                                                *)
(***************************************************************************)
\* cache.backup under the lock: Merge, then Backup("") unless Merge failed.
\* backupFileName is the name that Backup makes from the clock.
CacheBackupLocked(disk, w, persist, order, mergeFault, backupFileName, backupFault) ==
    IF ~persist
    THEN [err |-> "backup failed, persistence is not enabled", disk |-> disk, w |-> w]
    ELSE CHOOSE r \in {IF mg.err # "nil"
                        THEN [err |-> mg.err, disk |-> mg.disk, w |-> mg.w]
                        ELSE WsBackup(mg.disk, mg.w, backupFileName, backupFault) :
                        mg \in {WsMerge(disk, w, order, mergeFault)}} : TRUE

\* cache.init from the i-th of keys on: every key that the write sequence
\* can Get is added to the LRU; a key whose Get fails is skipped.  faultAt is
\* the position of the Get that the device fails, 0 when it fails none.
RECURSIVE CacheInit(_, _, _, _, _, _)
CacheInit(disk, w, c, keys, i, faultAt) ==
    IF i > Len(keys) \/ c.status # "ok" THEN c
    ELSE LET g == WsGet(disk, w, keys[i], faultAt = i) IN
         CacheInit(disk, w,
                   IF g.err = "nil" THEN LruAdd(c, keys[i], g.val).c ELSE c,
                   keys, i + 1, faultAt)

\* The LRU of a fresh shard of capacity cacheBytes built over the directory:
\* NewGroup with FullPersistentFile naming the data file itself, that is
\* NewWriteSequence and init.
FreshShard(disk, cacheBytes, keys, faultAt) ==
    LET n == NewWriteSequence(disk) IN
    CacheInit(n.disk, n.w, New(cacheBytes), keys, 1, faultAt)

\* One more call on the shard.
ShardCall(fault) ==
    /\ lru.status = "ok"
    /\ fault => cfg.persist
    /\ WsCall(fault)
    /\ UNCHANGED <<lruOps, stopped, groupVars, extVars>>

add(key, val) ==
    \E timestamp \in Timestamps, fault \in BOOLEAN :
        /\ fault => Len(key) # 0
        /\ ShardCall(fault)
        /\ LET r == IF Len(key) = 0
                    THEN [err |-> NoErr, disk |-> fs, w |-> ws, c |-> lru]
                    ELSE CacheAddLocked(fs, ws, lru, cfg.persist, key, val,
                                        timestamp, fault)
           IN /\ fs' = r.disk
              /\ ws' = r.w
              /\ lru' = r.c
              /\ wsRes' = WsRes("add", key, val, r.err, Failed(fault, "write"))
              /\ lastPut' = IF Len(key) = 0 THEN lastPut
                            ELSE IF r.err = NoErr THEN MapStore(lastPut, key, val)
                            ELSE MapDelete(lastPut, key)
        /\ UNCHANGED lruRes

get(key) ==
    /\ ShardCall(FALSE)
    /\ LET r == LruGet(lru, key) IN
       /\ lru' = r.c
       /\ lruRes' = Res("Get", key, Nil, r.ok, r.val, key \in DOMAIN lru.cache, 0)
       /\ wsRes' = WsRes("get", key, r.val, NoErr, "none")
    /\ UNCHANGED <<fs, ws, lastPut>>

delete(key) ==
    \E timestamp \in Timestamps, fault \in BOOLEAN :
        /\ fault => (Len(key) # 0 /\ key \in DOMAIN ws.index)
        /\ ShardCall(fault)
        /\ LET r == CacheDeleteLocked(fs, ws, lru, cfg.persist, key, timestamp, fault) IN
           /\ fs' = r.disk
           /\ ws' = r.w
           /\ lru' = r.c
           /\ wsRes' = WsRes("delete", key, Nil, r.err, Failed(fault, "write"))
        /\ lastPut' = MapDelete(lastPut, key)
        /\ UNCHANGED lruRes

backup ==
    \E order \in RangeOrders(ws.index),
       mergeFault \in MergeFaults(Cardinality(DOMAIN ws.index)),
       backupFileName \in BackupPaths, backupFault \in {"none", "open", "copy"} :
        /\ ws.databaseFile.offset = 0 => mergeFault.kind = "none"
        /\ mergeFault.kind = "none" \/ backupFault = "none"
        /\ ShardCall(mergeFault.kind # "none" \/ backupFault # "none")
        /\ \E r \in {CacheBackupLocked(fs, ws, cfg.persist, order, mergeFault,
                                         backupFileName, backupFault)} :
           /\ fs' = r.disk
           /\ ws' = r.w
           /\ wsRes' = WsRes("backup", Nil, Nil, r.err,
                             IF mergeFault.kind # "none" THEN mergeFault.kind
                             ELSE backupFault)
        /\ UNCHANGED <<lru, lruRes, lastPut>>

\* The process starts again on the same directory: NewGroup makes a write
\* sequence, an empty LRU of the same capacity, and calls init.
init ==
    \E order \in RangeOrders(NewWriteSequence(fs).w.index),
       faultAt \in 0..Cardinality(DOMAIN NewWriteSequence(fs).w.index) :
        /\ ShardCall(faultAt # 0)
        /\ LET n == NewWriteSequence(Reclaim(fs, {})) IN
           /\ fs' = n.disk
           /\ ws' = n.w
           /\ lru' = CacheInit(n.disk, n.w, New(lru.maxBytes), order, 1, faultAt)
           /\ wsRes' = WsRes("init", Nil, Nil, n.err, Failed(faultAt # 0, "read"))
        /\ UNCHANGED <<lruRes, lastPut>>

(***************************************************************************)
(* The shard called by several goroutines at once, one lock call at a      *)
(* time.  An operation takes c.mu, makes the lock calls of the write       *)
(* sequence and of the files, and releases c.mu; every Unlock is deferred, *)
(* so the calls are the same on every return path.  While c.mu is held by  *)
(* a writer nothing else reads or writes the shard, so the operation's     *)
(* change of the LRU and of the write sequence is made in the step that    *)
(* takes c.mu.  The device fails no call here.                             *)
(***************************************************************************)
ShardOps == {"add", "get", "delete", "backup", "init"}

\* A variant in which every operation takes the lock of the file before
\* that of the write sequence.
LockCallsFileFirst(op, key, w, persist) ==
    <<[call |-> "Lock", on |-> "file"], [call |-> "Lock", on |-> "ws"],
      [call |-> "Unlock", on |-> "ws"], [call |-> "Unlock", on |-> "file"]>>

\* The lock calls that a shard operation makes after it has taken c.mu, on
\* the write sequence w: Put and Delete lock w.mutex and Write locks the
\* file; Delete of a key that is not in the index returns before Write;
\* Get read-locks w.mutex and Read read-locks the file; Merge returns at
\* once on an empty file, and else locks w.mutex and, per key of the index,
\* Reads the data file and Writes the merge file; Backup locks w.mutex.
LockCalls(op, key, w, persist) ==
    LET L(call, on) == [call |-> call, on |-> on]
        n == Cardinality(DOMAIN w.index)
        Write == <<L("Lock", "file"), L("Unlock", "file")>>
        Read == <<L("RLock", "file"), L("RUnlock", "file")>>
        GetKey == <<L("RLock", "ws")>> \o Read \o <<L("RUnlock", "ws")>>
        Copy == Read \o <<L("Lock", "merge"), L("Unlock", "merge")>>
    IN CASE op = "add" ->
               IF persist THEN <<L("Lock", "ws")>> \o Write \o <<L("Unlock", "ws")>> ELSE <<>>
         [] op = "get" -> <<>>
         [] op = "delete" ->
               IF ~persist \/ Len(key) = 0 THEN <<>>
               ELSE <<L("Lock", "ws")>>
                       \o (IF key \in DOMAIN w.index THEN Write ELSE <<>>)
                       \o <<L("Unlock", "ws")>>
         [] op = "backup" ->
               IF ~persist THEN <<>>
               ELSE (IF w.databaseFile.offset = 0 THEN <<>>
                     ELSE <<L("Lock", "ws")>>
                             \o [i \in 1..(4 * n) |-> Copy[((i - 1) % 4) + 1]]
                             \o <<L("Unlock", "ws")>>)
                        \o <<L("Lock", "ws"), L("Unlock", "ws")>>
         [] op = "init" -> [i \in 1..(4 * n) |-> GetKey[((i - 1) % 4) + 1]]

\* What the operation does to the shard between taking and releasing c.mu.
ShardEffect(op, key, val, order, timestamp) ==
    CASE op = "add" ->
            CacheAddLocked(fs, ws, lru, cfg.persist, key, val, timestamp, FALSE)
      [] op = "get" -> [err |-> NoErr, disk |-> fs, w |-> ws, c |-> LruGet(lru, key).c]
      [] op = "delete" ->
            CacheDeleteLocked(fs, ws, lru, cfg.persist, key, timestamp, FALSE)
      [] op = "backup" ->
            CHOOSE r \in {[err |-> b.err, disk |-> b.disk, w |-> b.w, c |-> lru] :
                            b \in {CacheBackupLocked(fs, ws, cfg.persist, order,
                                                      [kind |-> "none", at |-> 0],
                                                      "append.data.1", "none")}} : TRUE
      [] op = "init" ->
            [err |-> NoErr, disk |-> fs, w |-> ws, c |-> CacheInit(fs, ws, lru, order, 1, 0)]

\* A goroutine calls a shard operation; init is called only on a shard that
\* has a write sequence.  add returns at once on an empty key; get takes
\* c.mu with RLock and every other operation with Lock.
LockStart(p, op, key, val) ==
    /\ locks.op[p] = "idle"
    /\ lru.status = "ok"
    /\ op = "init" => cfg.persist
    /\ WsCall(FALSE)
    /\ locks' = IF op = "add" /\ Len(key) = 0 THEN locks
                ELSE [locks EXCEPT
                        !.op[p] = op,
                        !.key[p] = IF op \in {"backup", "init"} THEN Nil ELSE key,
                        !.val[p] = IF op = "add" THEN val ELSE Nil,
                        !.todo[p] = <<[call |-> IF op = "get" THEN "RLock" ELSE "Lock",
                                       on |-> "shard"]>>]
    /\ UNCHANGED <<lruVars, fs, ws, wsRes, lastPut, stopped, groupVars, ringVars, http, lruUsed, overlap>>

\* The RWMutex named on.
RWMutex(on) == IF on = "shard" THEN mu ELSE locks[on]

\* Whether the next lock call of goroutine p returns or makes progress: a
\* Lock that finds the lock taken blocks, and from then on new readers are
\* kept out; RLock blocks while there is a writer or a blocked Lock.
CanStep(p) ==
    /\ locks.todo[p] # <<>>
    /\ lru.status = "ok"
    /\ LET c == Head(locks.todo[p]) IN
       /\ c.call = "Lock"
             => \/ p \notin locks.pending[c.on]
                \/ RWMutex(c.on).writer = 0 /\ RWMutex(c.on).readers = {}
       /\ c.call = "RLock" => RWMutex(c.on).writer = 0 /\ locks.pending[c.on] = {}

\* The next lock call of goroutine p.  The step that takes c.mu also makes
\* the operation's change and finds the lock calls that follow; the step
\* that makes the last call returns from the operation.
LockStep(p) ==
    /\ CanStep(p)
    /\ LET c == Head(locks.todo[p])
           rw == RWMutex(c.on)
           free == rw.writer = 0 /\ rw.readers = {}
           takes == c.call = "RLock" \/ (c.call = "Lock" /\ free)
           waits == c.call = "Lock" /\ ~free
           after == CASE c.call = "RLock" -> [rw EXCEPT !.readers = @ \cup {p}]
                      [] c.call = "RUnlock" -> [rw EXCEPT !.readers = @ \ {p}]
                      [] c.call = "Unlock" -> [rw EXCEPT !.writer = 0]
                      [] c.call = "Lock" -> IF free THEN [rw EXCEPT !.writer = p] ELSE rw
           first == takes /\ c.on = "shard"
           calls1 == IF first
                     THEN LockCalls(locks.op[p], locks.key[p], ws, cfg.persist)
                             \o <<[call |-> IF c.call = "RLock" THEN "RUnlock" ELSE "Unlock",
                                    on |-> "shard"]>>
                     ELSE Tail(locks.todo[p])
           todo1 == IF waits THEN locks.todo[p] ELSE calls1
           l1 == [locks EXCEPT
                    !.pending[c.on] = IF waits THEN @ \cup {p} ELSE @ \ {p},
                    !.todo[p] = todo1,
                    !.held[p] = IF takes THEN Append(@, c.on)
                                ELSE IF waits THEN @
                                ELSE SelectSeq(@, LAMBDA on : on # c.on),
                    !.op[p] = IF todo1 = <<>> THEN "idle" ELSE @]
       IN /\ mu' = IF c.on = "shard" THEN after ELSE mu
          /\ locks' = IF c.on = "shard" THEN l1 ELSE [l1 EXCEPT ![c.on] = after]
          /\ IF first
             THEN \E order \in RangeOrders(ws.index), timestamp \in Timestamps :
                     \E r \in {ShardEffect(locks.op[p], locks.key[p], locks.val[p],
                                            order, timestamp)} :
                        /\ fs' = r.disk
                        /\ ws' = r.w
                        /\ lru' = r.c
                        /\ wsRes' = WsRes(locks.op[p], locks.key[p], locks.val[p],
                                          r.err, "none")
             ELSE UNCHANGED <<fs, ws, lru, wsRes>>
    /\ UNCHANGED <<lruRes, lruOps, wsOps, wsFaults, lastPut, stopped,
                   m, calls, pc, pl, ret, genRuns, gets, cfg, ringVars, http, lruUsed, overlap>>

(***************************************************************************)
(* Specifications.  vars is the whole state; each specification drives one *)
(* part of it and leaves the rest as constructed.                          *)
(***************************************************************************)
vars == <<lru, lruRes, lruOps, fs, ws, wsRes, wsOps, wsFaults, lastPut, stopped,
          mu, m, calls, pc, pl, ret, genRuns, gets, cfg, extVars>>

\* The LRU alone.
LruNext ==
    \/ \E key \in Keys \cup {EmptyKey} : CacheGet(key) /\ UNCHANGED <<wsVars, groupVars, ringVars, http, locks, overlap>>
    \/ \E key \in Keys \cup {EmptyKey}, val \in Values : CacheAdd(key, val) /\ UNCHANGED <<wsVars, groupVars, ringVars, http, locks, overlap>>
    \/ \E key \in Keys \cup {EmptyKey} : CacheRemove(key) /\ UNCHANGED <<wsVars, groupVars, ringVars, http, locks, overlap>>
    \/ CacheRemoveOldest /\ UNCHANGED <<wsVars, groupVars, ringVars, http, locks, overlap>>

LruAlone == LruInit /\ WsInit /\ GroupIdle /\ ExtIdle

SpecLRU == LruAlone /\ [][LruNext]_vars

\* The write sequence with Put, Get and Delete.
LogNext ==
    \/ \E key \in WsKeys, value \in WsValues : Put(key, value) /\ UNCHANGED <<lruVars, groupVars, extVars>>
    \/ \E key \in WsKeys : Get(key) /\ UNCHANGED <<lruVars, groupVars, extVars>>
    \/ \E key \in WsKeys : Delete(key) /\ UNCHANGED <<lruVars, groupVars, extVars>>

LruIdle ==
    /\ lru = New(0)
    /\ lruRes = Res("New", Nil, Nil, TRUE, Nil, FALSE, 0)
    /\ lruOps = 0

WsAlone == WsInit /\ LruIdle /\ GroupIdle /\ ExtIdle

SpecLog == WsAlone /\ [][LogNext]_vars

\* The write sequence with Merge as well.
WsNext ==
    \/ LogNext
    \/ Merge /\ UNCHANGED <<lruVars, groupVars, extVars>>

SpecWS == WsAlone /\ [][WsNext]_vars

\* The write sequence with Backup as well, and a process that may stop
\* during the file rotation of Merge.
StoreNext ==
    \/ WsNext
    \/ \E backupFileName \in BackupPaths : Backup(backupFileName) /\ UNCHANGED <<lruVars, groupVars, extVars>>
    \/ \E step \in RotationSteps : MergeStop(step) /\ UNCHANGED <<lruVars, groupVars, extVars>>

SpecStore == WsAlone /\ [][StoreNext]_vars

\* The write sequence across stops of the process: a stop during the WriteAt
\* of a Put or during the file rotation of a Merge, and the start that
\* follows on the same directory.
RecoverNext ==
    \/ \E key \in WsKeys, value \in WsValues : Put(key, value) /\ UNCHANGED <<lruVars, groupVars, extVars>>
    \/ \E key \in WsKeys : Delete(key) /\ UNCHANGED <<lruVars, groupVars, extVars>>
    \/ Merge /\ UNCHANGED <<lruVars, groupVars, extVars>>
    \/ \E step \in RotationSteps : MergeStop(step) /\ UNCHANGED <<lruVars, groupVars, extVars>>
    \/ \E key \in WsKeys, value \in WsValues : PutStop(key, value) /\ UNCHANGED <<lruVars, groupVars, extVars>>
    \/ Restart /\ UNCHANGED <<lruVars, groupVars, extVars>>

SpecRecover == WsAlone /\ [][RecoverNext]_vars

\* The shard with persistence enabled.
ShardNext ==
    \/ \E key \in Keys \cup {EmptyKey}, val \in Values : add(key, val)
    \/ \E key \in Keys \cup {EmptyKey} : get(key)
    \/ \E key \in Keys \cup {EmptyKey} : delete(key)
    \/ backup
    \/ init

ShardAlone ==
    /\ LruInit
    /\ WsInit
    /\ ProcsIdle
    /\ cfg = [remote |-> {}, persist |-> TRUE]
    /\ ExtIdle

SpecShard == ShardAlone /\ [][ShardNext]_vars

\* Concurrent calls of the shard's operations, on a shard of capacity
\* CapBytes with persistence off or on an empty directory.
LocksNext ==
    \/ \E p \in Procs, op \in ShardOps, key \in Keys \cup {EmptyKey}, val \in Values :
          LockStart(p, op, key, val)
    \/ \E p \in Procs : LockStep(p)

SpecLocks == GroupInit /\ [][LocksNext]_vars

\* Concurrent Group.Get calls.
GroupNext ==
    \/ \E p \in Procs, key \in Keys \cup {EmptyKey} : GetStart(p, key) /\ UNCHANGED extVars
    \/ \E p \in Procs : ShardGetRLock(p) /\ UNCHANGED extVars
    \/ \E p \in Procs : ShardGet(p) /\ UNCHANGED extVars
    \/ \E p \in Procs : DoEnter(p) /\ UNCHANGED extVars
    \/ \E p \in Procs : DoWait(p) /\ UNCHANGED extVars
    \/ \E p \in Procs : GetFromPeer(p) /\ UNCHANGED extVars
    \/ \E p \in Procs : GetLocally(p) /\ UNCHANGED extVars
    \/ \E p \in Procs : ShardAddLock(p) /\ UNCHANGED extVars
    \/ \E p \in Procs : ShardAdd(p) /\ UNCHANGED extVars
    \/ \E p \in Procs : DoDone(p) /\ UNCHANGED extVars
    \/ \E p \in Procs : DoDelete(p) /\ UNCHANGED extVars

SpecGroup == GroupInit /\ [][GroupNext]_vars

\* Concurrent Group.Get and Group.Delete calls.
GetDeleteNext ==
    \/ GroupNext
    \/ \E p \in Procs, key \in Keys \cup {EmptyKey} : DeleteDuringGets(p, key)
    \/ \E p \in Procs : ShardDelete(p) /\ UNCHANGED extVars

SpecGetDelete == GroupInit /\ [][GetDeleteNext]_vars

\* The steps of goroutine p inside a Get that it has started.
GoStep(p) ==
    /\ \/ ShardGetRLock(p) \/ ShardGet(p) \/ DoEnter(p) \/ DoWait(p)
       \/ GetFromPeer(p) \/ GetLocally(p) \/ ShardAddLock(p) \/ ShardAdd(p)
       \/ DoDone(p) \/ DoDelete(p)
    /\ UNCHANGED extVars

\* At most MaxFairGets calls of Get under the Go scheduler: a goroutine that
\* can take its next step is not left out forever.
FairNext == GroupNext /\ gets' <= MaxFairGets

SpecGroupFair ==
    GroupInit /\ [][FairNext]_vars /\ \A p \in Procs : WF_vars(GoStep(p))

\* One goroutine calling Group.Get and Group.Delete one after the other, on
\* a Group of any capacity up to CapBytes.
SeqProcs == {1}

SeqInit ==
    /\ LruInit
    /\ WsInit
    /\ ProcsIdle
    /\ \E persist \in BOOLEAN : cfg = [remote |-> {KeyOf(1)}, persist |-> persist]
    /\ ExtIdle

SeqNext ==
    \/ \E p \in SeqProcs, key \in Keys \cup {EmptyKey} : GetStart(p, key) /\ UNCHANGED extVars
    \/ \E p \in SeqProcs : ShardGetRLock(p) /\ UNCHANGED extVars
    \/ \E p \in SeqProcs : ShardGet(p) /\ UNCHANGED extVars
    \/ \E p \in SeqProcs : DoEnter(p) /\ UNCHANGED extVars
    \/ \E p \in SeqProcs : GetFromPeer(p) /\ UNCHANGED extVars
    \/ \E p \in SeqProcs : GetLocally(p) /\ UNCHANGED extVars
    \/ \E p \in SeqProcs : ShardAddLock(p) /\ UNCHANGED extVars
    \/ \E p \in SeqProcs : ShardAdd(p) /\ UNCHANGED extVars
    \/ \E p \in SeqProcs : DoDone(p) /\ UNCHANGED extVars
    \/ \E p \in SeqProcs : DoDelete(p) /\ UNCHANGED extVars
    \/ \E p \in SeqProcs, key \in Keys \cup {EmptyKey} : DeleteStart(p, key) /\ UNCHANGED extVars
    \/ \E p \in SeqProcs : ShardDelete(p) /\ UNCHANGED extVars

SpecSeq == SeqInit /\ [][SeqNext]_vars

\* One goroutine serving HTTP requests one after the other.
HttpNext ==
    \/ \E p \in SeqProcs, method \in {"GET", "DELETE", "PUT"},
          groupName \in {"scores", "other"}, key \in Keys \cup {EmptyKey} :
             ServeKey(p, method, groupName, key)
    \/ \E p \in SeqProcs : ServeKeyReply(p)
    \/ \E p \in SeqProcs : ShardGetRLock(p) /\ UNCHANGED extVars
    \/ \E p \in SeqProcs : ShardGet(p) /\ UNCHANGED extVars
    \/ \E p \in SeqProcs : DoEnter(p) /\ UNCHANGED extVars
    \/ \E p \in SeqProcs : GetFromPeer(p) /\ UNCHANGED extVars
    \/ \E p \in SeqProcs : GetLocally(p) /\ UNCHANGED extVars
    \/ \E p \in SeqProcs : ShardAddLock(p) /\ UNCHANGED extVars
    \/ \E p \in SeqProcs : ShardAdd(p) /\ UNCHANGED extVars
    \/ \E p \in SeqProcs : DoDone(p) /\ UNCHANGED extVars
    \/ \E p \in SeqProcs : DoDelete(p) /\ UNCHANGED extVars
    \/ \E p \in SeqProcs : ShardDelete(p) /\ UNCHANGED extVars

SpecHttp == SeqInit /\ [][HttpNext]_vars

\* The consistent-hash ring alone.
RingNext ==
    \/ \E keys \in AddArgs : RingAdd(keys) /\ UNCHANGED <<lruVars, wsVars, groupVars, http, lruUsed, locks, overlap>>
    \/ \E key \in Keys \cup {EmptyKey} : RingGet(key) /\ UNCHANGED <<lruVars, wsVars, groupVars, http, lruUsed, locks, overlap>>

RingAlone ==
    /\ RingInit /\ LruIdle /\ WsInit /\ GroupIdle
    /\ lruUsed = <<>>
    /\ locks = NoLocks
    /\ overlap = {}
    /\ http = [p \in 1..NumProcs |-> [state |-> "none", method |-> "", group |-> "", status |-> 0, body |-> Nil]]

SpecRing == RingAlone /\ [][RingNext]_vars

(***************************************************************************)
(* Properties of the LRU core.                                             *)
(***************************************************************************)
\* The entries of the cache: the list elements that hold an *entry.
RECURSIVE EntryBytesFrom(_, _)
EntryBytesFrom(ll, i) ==
    IF i > Len(ll) THEN 0
    ELSE (IF ll[i].isEntry THEN Len(ll[i].key) + Len(ll[i].insideValue) ELSE 0)
         + EntryBytesFrom(ll, i + 1)

EntryBytes(c) == EntryBytesFrom(c.ll, 1)

\* C3: after any sequence of Add and Remove, nbytes (used_bytes) is the sum
\* of len(key) + value.Len() over the entries in the cache.
C3_UsedBytesIsSum == lru.nbytes = EntryBytes(lru)

\* C4: with maxBytes > 0, once an Add has returned, nbytes <= maxBytes or
\* the Add returned false.
C4_AddWithinCapacity ==
    (lruRes.op = "Add" /\ lru.status = "ok" /\ lru.maxBytes > 0)
        => (lru.nbytes <= lru.maxBytes \/ ~lruRes.ok)

\* An accepted Add that had to evict two entries to get back under maxBytes.
C4_Witness ==
    /\ lruRes.op = "Add" /\ lruRes.ok /\ lru.status = "ok"
    /\ lru.maxBytes > 0 /\ lruRes.evicted >= 2
    /\ lruRes.key \in DOMAIN lru.cache

\* C5: every key of the index maps to exactly one element of the list, that
\* element is the key's entry, and the list has exactly one element per key.
C5_IndexMatchesList ==
    /\ Len(lru.ll) = Cardinality(DOMAIN lru.cache)
    /\ \A k \in DOMAIN lru.cache :
          /\ Cardinality({i \in 1..Len(lru.ll) : lru.ll[i].id = lru.cache[k]}) = 1
          /\ ElemOf(lru, lru.cache[k]).isEntry
          /\ ElemOf(lru, lru.cache[k]).key = k

\* C6: an accepted Add(k, v2) on a key that was present leaves v2 as k's
\* value and k's entry most recently used: the entry of every other key lies
\* behind it in the recency list, so that evictions reach it last.
C6_RefreshedIsMRU ==
    (/\ lruRes.op = "Add" /\ lruRes.ok /\ lruRes.was
     /\ lru.status = "ok" /\ lruRes.key \in DOMAIN lru.cache)
        => /\ ElemOf(lru, lru.cache[lruRes.key]).insideValue = lruRes.val
           /\ \A k \in (DOMAIN lru.cache) \ {lruRes.key} :
                 PosOf(lru.ll, lru.cache[lruRes.key]) < PosOf(lru.ll, lru.cache[k])

\* C7: no sequence of Get/Add/Remove/RemoveOldest panics or fails to return.
C7_NoLruFailure == lru.status = "ok"

\* C8: Add returns false exactly when maxBytes > 0 and
\* len(key) + value.Len() > maxBytes, and then the cache (entries, recency
\* order and nbytes) is what it was before the call.
C8_AddRejection ==
    [][(lruRes'.op = "Add" /\ lruOps' # lruOps)
          => /\ (~lruRes'.ok) <=> (/\ lru.maxBytes > 0
                                   /\ Len(lruRes'.key) + Len(lruRes'.val) > lru.maxBytes)
             /\ (~lruRes'.ok) => lru' = lru]_vars

\* A rejected Add on a cache that holds entries.
C8_Witness ==
    /\ lruRes.op = "Add" /\ ~lruRes.ok
    /\ Len(lru.ll) > 0
    /\ Len(lruRes.key) + Len(lruRes.val) > lru.maxBytes

\* C25: Get on a present key moves its entry to the most-recently-used
\* position; every eviction, by RemoveOldest or by an Add over capacity,
\* removes entries whose last Get or Add is older than that of every entry
\* that stays; and after an Add nbytes <= maxBytes.
C25_EvictsLeastRecentlyUsed ==
    [][lruOps' # lruOps
          => LET added == lruRes'.op = "Add" /\ lruRes'.ok
                 touched == IF added THEN Touch(lruUsed, lruRes'.key) ELSE lruUsed
                 evicted == {touched[i] : i \in 1..Len(touched)} \ DOMAIN lru'.cache
             IN /\ (lruRes'.op = "Get" /\ lruRes'.ok)
                      => (lru'.ll[1].isEntry /\ lru'.ll[1].key = lruRes'.key)
                /\ lruRes'.op \in {"Add", "RemoveOldest"}
                      => /\ lru'.status = "ok"
                         /\ \A i, j \in 1..Len(touched) :
                               (touched[i] \in evicted /\ touched[j] \notin evicted)
                                   => j < i
                /\ (added /\ lru.maxBytes > 0) => lru'.nbytes <= lru.maxBytes]_vars

(***************************************************************************)
(* Properties of the write sequence.                                       *)
(***************************************************************************)
\* The records of a file from offset on, as replay would step through them.
RECURSIVE RecordsFrom(_, _)
RecordsFrom(bytes, offset) ==
    LET r == ReadRecord(bytes, offset) IN
    IF offset >= Len(bytes) \/ r.err # "nil" THEN <<>>
    ELSE <<r.entry>> \o RecordsFrom(bytes, offset + Size(r.entry))

ActiveBytes == fs.data[ws.databaseFile.ino]

\* C9: after any sequence of Put and Delete, a fresh write sequence over the
\* same directory replays append.data from offset 0 into an index equal to
\* the live one (same keys, same offsets).
C9_ReplayEqualsIndex ==
    LET n == NewWriteSequence(fs) IN
    /\ n.err = "nil"
    /\ n.w.index = ws.index

\* A Put of a key whose earlier record was deleted: the file holds a PUT, a
\* DEL and a later PUT of the key, next to another live key.
C9_Witness ==
    LET recs == RecordsFrom(ActiveBytes, 0) IN
    /\ wsRes.op = "Put" /\ wsRes.err = "nil"
    /\ Cardinality(DOMAIN ws.index) >= 2
    /\ \E i, j \in 1..Len(recs) :
          /\ i < j /\ j < Len(recs)
          /\ recs[i].Mark = PUT /\ recs[i].Key = wsRes.key
          /\ recs[j].Mark = DEL /\ recs[j].Key = wsRes.key
    /\ ws.index[wsRes.key] > 0
    /\ NewWriteSequence(fs).w.index = ws.index

\* C10: in every state reached by Put, Delete and Merge, for every key of
\* the index the record at the indexed offset of the active file has
\* mark PUT, that key, and the value of the latest successful Put of the key.
C10_IndexPointsAtLatestPut ==
    \A k \in DOMAIN ws.index :
        LET r == ReadRecord(ActiveBytes, ws.index[k]) IN
        /\ r.err = "nil"
        /\ r.entry.Mark = PUT
        /\ r.entry.Key = k
        /\ k \in DOMAIN lastPut
        /\ r.entry.Value = lastPut[k]

\* A successful Merge that shrank the file and left two live keys, one of
\* them at an offset other than 0.
C10_Witness ==
    /\ wsRes.op = "Merge" /\ wsRes.err = "nil"
    /\ ws.databaseFile.offset < wsRes.size
    /\ Cardinality(DOMAIN ws.index) = 2
    /\ \E k \in DOMAIN ws.index :
          /\ ws.index[k] > 0
          /\ ReadRecord(ActiveBytes, ws.index[k]).entry.Value = lastPut[k]

\* A step that is a call of Merge.
MergeStep == wsRes'.op = "Merge" /\ wsOps' # wsOps

\* C11: a Merge that returns nil leaves Get(k) as it was for every key k of
\* the index, and the active data file no larger than it was.
C11_MergePreservesGet ==
    [][(MergeStep /\ wsRes'.err = "nil")
          => /\ \A k \in DOMAIN ws.index :
                   WsGet(fs', ws', k, FALSE) = WsGet(fs, ws, k, FALSE)
             /\ Len(fs'.data[ws'.databaseFile.ino]) <= Len(ActiveBytes)]_vars

\* C13: a Merge during which the Read of a live record or the Write to the
\* merge file fails returns an error and leaves the write sequence (index
\* and data file) and the bytes under the name append.data as they were.
C13_MergeFailureKeepsFiles ==
    [][(MergeStep /\ wsRes'.failed \in {"read", "write"})
          => /\ wsRes'.err # "nil"
             /\ ws' = ws
             /\ DataFileName \in DOMAIN fs'.dir
             /\ fs'.data[fs'.dir[DataFileName]] = ActiveBytes]_vars

\* The value that the index and the data file give for each key.
LiveValues(disk, w) ==
    [k \in DOMAIN w.index |->
        ReadRecord(disk.data[w.databaseFile.ino], w.index[k]).entry.Value]

\* C12: if the process stops at any step of the file rotation of Merge, the
\* name append.data exists and refers to the complete old file or to the
\* complete merged file (one record per live key, with the key's value).
C12_CanonicalNameAfterStop ==
    [][(wsRes'.op = "Merge" /\ stopped' /\ ~stopped)
          => /\ DataFileName \in DOMAIN fs'.dir
             /\ \/ fs'.data[fs'.dir[DataFileName]] = ActiveBytes
                \/ LET n == NewWriteSequence(fs') IN
                   /\ n.err = "nil"
                   /\ LiveValues(n.disk, n.w) = LiveValues(fs, ws)
                   /\ Len(fs'.data[fs'.dir[DataFileName]]) <= Len(ActiveBytes)]_vars

\* C14: every Backup(path) that returns nil leaves at path a copy of the
\* whole active data file, from offset 0 to its end.
C14_BackupCopiesWholeFile ==
    [][(wsRes'.op = "Backup" /\ wsOps' # wsOps /\ wsRes'.err = "nil")
          => fs'.data[fs'.dir[wsRes'.key]] = ActiveBytes]_vars

(***************************************************************************)
(* Properties of the shard with persistence enabled.                       *)
(***************************************************************************)
\* A step that is a call of cache.add with a key that is not empty.
AddStep == wsRes'.op = "add" /\ wsOps' # wsOps /\ Len(wsRes'.key) # 0

\* C15: add(key, value) with persistence enabled appends the PUT record to
\* the log and then adds to the LRU; when the append fails, add returns the
\* error and the LRU (list, index and nbytes) and the log are unchanged.
C15_AddLogsFirst ==
    [][AddStep
          => /\ (wsRes'.failed = "write" \/ ws.databaseFile.closed) => wsRes'.err # NoErr
             /\ wsRes'.err # NoErr => (lru' = lru /\ ws' = ws /\ fs' = fs)
             /\ wsRes'.err = NoErr
                   => /\ \E timestamp \in Timestamps :
                            fs'.data[ws'.databaseFile.ino] =
                               ActiveBytes \o Encode(NewEntry(wsRes'.key, wsRes'.val,
                                                              PUT, timestamp))
                      /\ lru' = LruAdd(lru, wsRes'.key, wsRes'.val).c]_vars

\* An add that failed on a shard whose LRU holds the key with another value.
C15_Witness ==
    /\ wsRes.op = "add" /\ wsRes.err # NoErr /\ wsRes.failed = "write"
    /\ wsRes.key \in DOMAIN lru.cache
    /\ ElemOf(lru, lru.cache[wsRes.key]).insideValue # wsRes.val
    /\ Cardinality(DOMAIN lru.cache) = 2

\* C16: with persistence enabled, every key in the LRU is a key of the
\* index of the write sequence.
C16_LruKeysAreLive == cfg.persist => (DOMAIN lru.cache) \subseteq (DOMAIN ws.index)

\* C17: after add(k, v) returned nil, with no later add or delete of k, a
\* fresh shard built over the same log by init() has get(k) return v.  The
\* fresh shard has no capacity limit and init meets no failure, so that no
\* eviction, rejection or skipped key can hide k.
C17_FreshShardHasAdded ==
    \A k \in DOMAIN lastPut :
        \A keys \in RangeOrders(NewWriteSequence(fs).w.index) :
            LET r == LruGet(FreshShard(fs, 0, keys, 0), k) IN
            r.ok /\ r.val = lastPut[k]

\* C24: when the LRU rejects an oversized value during add(k, v), the shard
\* holds no value for k afterwards: the next get(k) misses, whether k was
\* absent or cached before.
C24_RejectedAddLeavesNoValue ==
    [][(AddStep /\ wsRes'.err = NoErr /\ Oversized(lru, wsRes'.key, wsRes'.val))
          => ~LruGet(lru', wsRes'.key).ok]_vars

(***************************************************************************)
(* Properties of the single-flight coordinator and of Group.Get.           *)
(***************************************************************************)
\* The goroutines that are executing the load closure (fn) for key k.
LoadPcs == {"peer", "local", "add", "add_locked"}
Loading(k) == {p \in Procs : pc[p] \in LoadPcs /\ pl[p].key = k}

\* C1: fn is invoked at most once per generation of a key's call record
\* (from its insertion into the map to its removal), and every Do call that
\* returned the result of a call record returned the (value, error) pair
\* that the fn of that record returned.
C1_SingleFlight ==
    /\ \A k \in Keys : genRuns[k] <= 1
    /\ \A p \in Procs :
          ret[p].via # 0 => calls[ret[p].via].fnRet = <<ret[p].val, ret[p].err>>

\* Two goroutines have returned from Do with the result of the same call
\* record, one of them the waiter, while the record was the only one made.
C1_Witness ==
    \E p, q \in Procs :
        /\ p # q
        /\ ret[p].via # 0 /\ ret[p].via = ret[q].via
        /\ Len(calls) = 1
        /\ calls[1].fnRet = <<ret[p].val, ret[p].err>>
        /\ calls[1].fnRet = <<ret[q].val, ret[q].err>>

\* C2: at every instant at most one goroutine is executing the load closure
\* (remote fetch, source loader, shard add) for a given key.
C2_OneLoadPerKey == \A k \in Keys : Cardinality(Loading(k)) <= 1

\* One goroutine is loading a key while another waits on the same call.
C2_Witness ==
    \E p, q \in Procs :
        /\ pc[p] \in LoadPcs /\ pc[q] = "wait"
        /\ pl[p].key = pl[q].key /\ pl[p].c = pl[q].c

(***************************************************************************)
(* Properties of Group.Get and Group.Delete called by one goroutine.       *)
(***************************************************************************)
\* C18: a Get whose load had the source loader succeed and the shard add
\* fail returns the error of the shard add, and no value.
C18_AddErrorSurfaces ==
    \A p \in Procs :
        (ret[p].via # 0 /\ calls[ret[p].via].addErr # NoErr)
            => (ret[p].err = calls[ret[p].via].addErr /\ ret[p].val = Nil)

\* The step in which goroutine p, inside fn after a failed remote fetch and
\* a successful source loader, returns from cache.add.
AddAfterPeerFailure(p) ==
    /\ pc[p] = "add_locked" /\ pc'[p] = "fn_done"
    /\ calls[pl[p].c].peerFailed

\* The step in which goroutine p returns from a Get of the key of its
\* previous call, that call having been a Get that loaded the key from the
\* source after a failed remote fetch.
GetAfterPeerFailure(p) ==
    /\ ret'[p].n = ret[p].n + 1
    /\ pc[p] \in {"get_locked", "del"}
    /\ ret[p].via # 0 /\ ret[p].err = NoErr
    /\ calls[ret[p].via].peerFailed
    /\ calls[ret[p].via].key = pl[p].key

\* The result of a Get served from the shard: it went through no load, so
\* through no peer and no source loader.
Hit(r, val) == r.via = 0 /\ r.err = NoErr /\ r.val = val

C20_DeleteOneOutcome ==
    [][\A p \in SeqProcs :
          (pc[p] = "delete" /\ pc'[p] = "idle")
              => /\ wsRes'.err # NoErr => ret'[p].err # NoErr
                 /\ ret'[p].err = NoErr
                       => /\ pl[p].key \notin DOMAIN ws'.index
                          /\ pl[p].key \notin DOMAIN lru'.cache]_vars

\* C31: every call of GroupCall.Do returns unless a call has panicked or
\* broken the list: a goroutine that has entered Do, as the caller that runs
\* fn or as one that waits for it, is back from its Get later on.
C31_DoReturns ==
    \A p \in Procs :
        (pc[p] \in {"wait", "peer", "local", "add", "add_locked", "fn_done", "del"})
            ~> (pc[p] = "idle" \/ lru.status # "ok")

\* A goroutine waits on a call whose fn has returned and which its caller
\* has already taken out of the map.
C31_Witness ==
    \E p \in Procs :
       /\ pc[p] = "wait" /\ calls[pl[p].c].done
       /\ pl[p].key \notin DOMAIN m

\* C26: on a shard no two operations that change the LRU's recency order
\* run at the same time: at most one goroutine is inside c.data.Get on a
\* present key (its move-to-front) or inside cache.add.
C26_LruMutationsSerialized ==
    \A p, q \in Procs :
        ((Moving(p) \/ pc[p] = "add_locked") /\ (Moving(q) \/ pc[q] = "add_locked"))
            => p = q

\* Goroutine p is inside GroupCall.Do for the key; it owns the call c when it
\* is the caller that made the record and has not yet returned from Do.
InDo(p, key) ==
    /\ pc[p] \in {"wait", "peer", "local", "add", "add_locked", "fn_done", "del"}
    /\ pl[p].key = key
Owns(p, c) ==
    /\ pc[p] \in {"peer", "local", "add", "add_locked", "fn_done", "del"}
    /\ pl[p].c = c

\* C27: the single-flight map holds a record for a key only while a Do call
\* for that key is in progress and the one caller that made the record is
\* still inside Do; a record is inserted by a caller that found none for its
\* key, and removed by the caller that made it, after its fn completed.
C27_OneRecordPerKey ==
    [][/\ \A key \in DOMAIN m' :
             /\ \E p \in Procs : InDo(p, key)'
             /\ Cardinality({p \in Procs : Owns(p, m[key])'}) = 1
       /\ m' # m
             => \E p \in Procs :
                   \/ /\ pc[p] = "do" /\ pl[p].key \notin DOMAIN m
                      /\ m' = MapStore(m, pl[p].key, pl'[p].c)
                      /\ Owns(p, m[pl[p].key])'
                   \/ /\ Owns(p, m[pl[p].key]) /\ calls[pl[p].c].fnRet # Nil
                      /\ m' = MapDelete(m, pl[p].key)]_vars

\* The step in which goroutine p, inside fn, calls the source loader.
LoaderCall(p) == pc[p] = "local" /\ pc'[p] # "local"

\* The step in which goroutine p, inside fn, runs cache.add under the lock.
AddCall(p) == pc[p] = "add_locked" /\ pc'[p] # "add_locked"

\* C32: while a key is in the LRU no Get calls the source loader for it and
\* no Get calls the shard's add for it: a key that a load has put into the
\* LRU is not loaded and added again by a Get that missed before that load.
C32_NoReloadWhileCached ==
    [][\A p \in Procs :
          (LoaderCall(p) \/ AddCall(p)) => pl[p].key \notin DOMAIN lru.cache]_vars

\* The Get that goroutine p is inside started before a Group.Delete of its
\* key that has returned since.
Overtaken(p) ==
    \E o \in overlap : o[1] = p /\ o[2] = ret[p].n /\ ret[o[3]].n > o[4]

\* C33: the cache.add of a Get that started before a Delete of its key, and
\* runs after that Delete has returned, leaves the key out of the LRU and
\* out of the index of the log.
C33_NoReinsertAfterDelete ==
    [][\A p \in Procs :
          (AddCall(p) /\ Overtaken(p))
              => /\ pl[p].key \notin DOMAIN lru'.cache
                 /\ pl[p].key \notin DOMAIN ws'.index]_vars

(***************************************************************************)
(* Properties of the write sequence across stops of the process.           *)
(***************************************************************************)
\* How the records of a file end, read from offset on: "end" when the last
\* record ends the file, "header" when fewer bytes than a header follow the
\* last whole record, "record" when a whole header follows it but the file
\* ends before the key and value that the header announces.
RECURSIVE TailOf(_, _)
TailOf(bytes, offset) ==
    IF offset = Len(bytes) THEN "end"
    ELSE IF Len(bytes) - offset < HeaderSize THEN "header"
    ELSE LET KeySize == Uint32(SubSeq(bytes, offset + 1, offset + 4))
             ValueSize == Uint32(SubSeq(bytes, offset + 5, offset + 8))
         IN IF Len(bytes) - offset < HeaderSize + KeySize + ValueSize THEN "record"
            ELSE TailOf(bytes, offset + HeaderSize + KeySize + ValueSize)

\* C28: replay ends normally when the file ends inside a record header, and
\* fails, so that NewWriteSequence fails, when the file ends inside the key
\* or value of a record whose header is whole.
C28_TornRecordFailsReplay ==
    wsRes.op = "NewWriteSequence"
        => LET tail == TailOf(fs.data[fs.dir[DataFileName]], 0) IN
           /\ tail \in {"end", "header"} => wsRes.err = "nil"
           /\ tail = "record" => wsRes.err # "nil"

\* C29: after a Merge that returned nil the active data file holds one PUT
\* record for every key of the live index and nothing else, and replaying
\* it yields the live index.
C29_MergedFileIsLiveIndex ==
    (wsRes.op = "Merge" /\ wsRes.err = "nil")
        => LET recs == RecordsFrom(ActiveBytes, 0) IN
           /\ TailOf(ActiveBytes, 0) = "end"
           /\ Len(recs) = Cardinality(DOMAIN ws.index)
           /\ \A i \in 1..Len(recs) :
                 /\ recs[i].Mark = PUT /\ recs[i].Key \in DOMAIN ws.index
                 /\ \A j \in 1..Len(recs) : recs[i].Key = recs[j].Key => i = j
           /\ LoadIndex(ActiveBytes, Len(ActiveBytes), 0, <<>>)
                 = [err |-> "nil", index |-> ws.index]

(***************************************************************************)
(* Properties of the locks of a shard.                                     *)
(***************************************************************************)
\* C30: every goroutine holds its locks in the order shard lock, lock of
\* the write sequence, lock of a file, and whenever a goroutine is inside a
\* shard operation some goroutine can make its next lock call: concurrent
\* get, add, delete, backup and init never deadlock.
C30_LockOrderNoDeadlock ==
    LET Rank(on) == CASE on = "shard" -> 1 [] on = "ws" -> 2 [] OTHER -> 3 IN
    /\ \A p \in Procs : \A i, j \in 1..Len(locks.held[p]) :
          i < j => Rank(locks.held[p][i]) < Rank(locks.held[p][j])
    /\ (lru.status = "ok" /\ \E p \in Procs : locks.todo[p] # <<>>)
          => \E p \in Procs : CanStep(p)

\* One goroutine holds the three locks inside add or delete while the other
\* is blocked in the Lock of c.mu.
C30_Witness ==
    \E p, q \in Procs :
       /\ locks.held[p] = <<"shard", "ws", "file">>
       /\ q \in locks.pending["shard"]
       /\ ~CanStep(q)

(***************************************************************************)
(* Properties of HTTPPool.ServeKey.                                        *)
(***************************************************************************)
\* C23: a GET of <base>/<group>/<key> is answered 404 when the group is
\* unknown and 500 when Group.Get failed; it is answered with a success
\* status and a serialized value only when Group.Get succeeded.
C23_GetStatus ==
    \A p \in SeqProcs :
        (http[p].state = "done" /\ http[p].method = "GET")
            => /\ http[p].group # "scores" => http[p].status = 404
               /\ (http[p].group = "scores" /\ ret[p].err = "getter")
                     => http[p].status = 500
               /\ http[p].status = 200
                     => (http[p].group = "scores" /\ ret[p].err = NoErr
                         /\ http[p].body = Marshal(ret[p].val))

(***************************************************************************)
(* Properties of the consistent-hash ring.                                 *)
(***************************************************************************)
\* The peers added so far and the hashes of their virtual nodes.
AddedPeers == {ringAdded[i] : i \in 1..Len(ringAdded)}
VNodeHashes(P) == {ring.hash[Itoa(i) \o P] : i \in 0..(ring.replicas - 1)}
RingHashes == UNION {VNodeHashes(P) : P \in AddedPeers}

\* The ring hash that a key with hash h belongs to: the smallest one >= h,
\* or the smallest one of all when none is >= h.
Successor(h) ==
    LET ge == {x \in RingHashes : x >= h}
        from == IF ge = {} THEN RingHashes ELSE ge
    IN CHOOSE x \in from : \A y \in from : x <= y

RingOf(order) == MapAdd(MapNew(ring.replicas, ring.hash), order)

\* Two different added peers have a virtual node with the same hash.
Collision == \E P, Q \in AddedPeers : P # Q /\ VNodeHashes(P) \cap VNodeHashes(Q) # {}

\* C22 as stated: for every replicas >= 1 and every hash function, Get(K)
\* is the same for every key K on every ring built from the same set of
\* peers, whatever the order and the grouping of the Add calls.
C22_OrderIndependent ==
    ring.replicas >= 1
        => \A order \in RangeOrders([P \in AddedPeers |-> 0]) :
              \A K \in Keys \cup {EmptyKey} : MapGet(RingOf(order), K) = MapGet(ring, K)

\* C22 amended: the same, when no two different peers have a virtual node
\* with the same hash.
C22_OrderIndependentNoCollision ==
    (ring.replicas >= 1 /\ ~Collision)
        => \A order \in RangeOrders([P \in AddedPeers |-> 0]) :
              \A K \in Keys \cup {EmptyKey} : MapGet(RingOf(order), K) = MapGet(ring, K)

\* Two peers added by two calls, without collision, the first added having
\* the greater hash, and two keys that the ring maps to different peers.
C22_Witness ==
    /\ ring.replicas >= 1 /\ ~Collision
    /\ Len(ringAdded) = 2 /\ Cardinality(AddedPeers) = 2 /\ ringOps = 2
    /\ \E x \in VNodeHashes(ringAdded[1]) : \A y \in VNodeHashes(ringAdded[2]) : x > y
    /\ \E K1, K2 \in Keys : MapGet(ring, K1) # MapGet(ring, K2)

====
